---------------------------- MODULE Spec2Model ----------------------------
(***************************************************************************)
(* Entity-resolution engine of the CRM migration scripts.                  *)
(*                                                                         *)
(*   SpecReview  scripts/helpers/fuzzy_dedup.py: clustering of names, the  *)
(*               interactive review loop and the write of the decisions    *)
(*               file.                                                     *)
(*                                                                         *)
(* Each specification leaves the variables of the other parts at a fixed   *)
(* idle value.                                                             *)
(***************************************************************************)
EXTENDS Integers, Sequences, FiniteSets, TLC

VARIABLES
    pc,              \* position of the running script
    df,              \* fuzzy_dedup: the data frame after dropna, in file order
    sim,             \* fuzzy_dedup: token_sort_ratio of each pair of distinct names
    groups,          \* fuzzy_dedup: the groups dict, in insertion order
    gi,              \* fuzzy_dedup: index of the group the review loop is at
    dialog,          \* fuzzy_dedup: items of the open GroupReviewDialog (<<>>: none)
    approved,        \* fuzzy_dedup: approved_ids of the dialog the loop body is working on
    presented,       \* fuzzy_dedup: the groups logged as presented, in order
    user_decisions,  \* fuzzy_dedup: decisions collected so far
    cache,           \* cache/decisions_<stem>.csv: NoFile or its rows
    cache0,          \* the content of that file when the session started
    writes,          \* number of times the session wrote the file
    own,             \* load_products: df_prod, the entity's own table
    own_out,         \* load_products: df_prod after the deduplication block
    dep,             \* load_courseEnrollments: df_raw, the dependent table
    id_remap,        \* load_courseEnrollments: duplicate id -> canonical id
    id_to_name,      \* load_courseEnrollments: canonical id -> canonical name
    dep_out,         \* load_courseEnrollments: df_raw after canonicalization
    ref,             \* load_schools / load_districts: the reference table, by row label
    wr,              \* the scorer: WRatio of a legacy name against a reference name
    df_ui,           \* load_schools / load_districts: df_ui
    latest,          \* df_ui after the deduplication
    run,             \* 1: first pass over the data, 2: the pass over its own output
    first,           \* latest of the first pass
    mapping,         \* mapping/Target-Legacy Mapping.csv: its rows
    catalog,         \* mapping/Target modules_fields.csv: its (module, field) pairs
    lookups,         \* the files a loader reads, by file: the legacy extract and the
                     \* optional files of cache/, each NoFile or its rows
    df_raw,          \* an association or enrollment loader: df_raw
    remaps,          \* load_courseEnrollments.main: id_remap and id_to_name
    df_out,          \* an association or enrollment loader: df_ui
    output,          \* the file of output/ the loader writes: NoFile or its rows
    log,             \* the records the loader has logged
    today,           \* the date of the run that is deriving the Status column
    runs             \* the frames the completed runs of one stage have produced

reviewVars == <<df, sim, groups, gi, dialog, approved, presented, user_decisions, cache,
               cache0, writes>>
ownVars == <<own, own_out>>
depVars == <<dep, id_remap, id_to_name, dep_out>>
matchVars == <<ref, wr, df_ui, latest, run, first>>
loadVars == <<mapping, catalog, lookups, df_raw, remaps, df_out, output, log>>
clockVars == <<today, runs>>
vars == <<pc, reviewVars, ownVars, depVars, matchVars, loadVars, clockVars>>

\* What each script leaves alone: the variables of the other scripts.
reviewOnly == <<df, sim, groups, gi, dialog, approved, presented, user_decisions, writes>>
notReview == <<ownVars, depVars, matchVars, loadVars, clockVars>>
notOwn == <<reviewOnly, depVars, matchVars, loadVars, clockVars>>
notDep == <<reviewOnly, ownVars, matchVars, loadVars, clockVars>>
notMatch == <<reviewVars, ownVars, depVars, loadVars, clockVars>>
notLoad == <<reviewVars, ownVars, depVars, matchVars, clockVars>>

\* ------------------------------------------------------------------ bounds
NumRecs == 4          \* rows of the file given to fuzzy_dedup
MaxDecisions == 2     \* rows of a decisions file read by a loader
NumDep == 1           \* rows of a dependent table

\* ------------------------------------------------------------- sequences
Range(s) == {s[i] : i \in DOMAIN s}

\* The subsequence of s at the positions whose element is in S (order kept).
RECURSIVE Keep(_, _)
Keep(s, S) ==
    IF s = <<>> THEN <<>>
    ELSE IF Head(s) \in S THEN <<Head(s)>> \o Keep(Tail(s), S)
    ELSE Keep(Tail(s), S)

\* =========================================================================
\*  fuzzy_dedup.py
\* =========================================================================
SIMILARITY_THRESHOLD == 85

Names == {"A", "B", "C"}
Times == {1, 2}
\* A file on disk: absent, or present with its rows.
NoFile == [exists |-> FALSE, rows |-> <<>>]
File(rows) == [exists |-> TRUE, rows |-> rows]

\* Scores the scorer may give a pair of distinct names: the threshold and one below.
SimLevels == {SIMILARITY_THRESHOLD - 1, SIMILARITY_THRESHOLD}
NamePairs == {{a, b} : a \in Names, b \in Names} \ {{a} : a \in Names}

\* fuzz.token_sort_ratio: symmetric, 100 on identical strings.
TokenSortRatio(a, b) == IF a = b THEN 100 ELSE sim[{a, b}]

\* A row of the legacy export: Record Id (unique in its dataset), name, Modified Time.
Row(i, n, t) == [id |-> i, name |-> n, mtime |-> t]

\* df[text_column].unique(): distinct names in order of first appearance.
RECURSIVE UniqueFrom(_, _)
UniqueFrom(s, seen) ==
    IF s = <<>> THEN <<>>
    ELSE IF Head(s) \in seen THEN UniqueFrom(Tail(s), seen)
    ELSE <<Head(s)>> \o UniqueFrom(Tail(s), seen \cup {Head(s)})

NamesToCompare(frame) == UniqueFrom([i \in DOMAIN frame |-> frame[i].name], {})

\* Mutant of Joiners: every name not yet in linkage joins, whatever its score.
RECURSIVE JoinersAnyScore(_, _, _)
JoinersAnyScore(name1, names, linked) ==
    IF names = <<>> THEN <<>>
    ELSE LET name2 == Head(names) IN
         IF name1 = name2 \/ name2 \in linked
         THEN JoinersAnyScore(name1, Tail(names), linked)
         ELSE <<name2>> \o JoinersAnyScore(name1, Tail(names), linked)

\* Mutant of Joiners: a score equal to the threshold does not join.
RECURSIVE JoinersStrict(_, _, _)
JoinersStrict(name1, names, linked) ==
    IF names = <<>> THEN <<>>
    ELSE LET name2 == Head(names) IN
         IF name1 = name2 \/ name2 \in linked
         THEN JoinersStrict(name1, Tail(names), linked)
         ELSE IF TokenSortRatio(name1, name2) > SIMILARITY_THRESHOLD
         THEN <<name2>> \o JoinersStrict(name1, Tail(names), linked)
         ELSE JoinersStrict(name1, Tail(names), linked)

\* The inner loop over name2 for representative name1: the names not yet in
\* linkage whose score against name1 reaches the threshold, in input order.
RECURSIVE Joiners(_, _, _)
Joiners(name1, names, linked) ==
    IF names = <<>> THEN <<>>
    ELSE LET name2 == Head(names) IN
         IF name1 = name2 \/ name2 \in linked
         THEN Joiners(name1, Tail(names), linked)
         ELSE IF TokenSortRatio(name1, name2) >= SIMILARITY_THRESHOLD
         THEN <<name2>> \o Joiners(name1, Tail(names), linked)
         ELSE Joiners(name1, Tail(names), linked)

\* The outer loop over name1, from position i; linked is the key set of linkage,
\* acc the groups built so far (a group: representative and member list).
RECURSIVE ClusterFrom(_, _, _, _)
ClusterFrom(names, i, linked, acc) ==
    IF i > Len(names) THEN acc
    ELSE LET name1 == names[i] IN
         IF name1 \in linked THEN ClusterFrom(names, i + 1, linked, acc)
         ELSE LET js == Joiners(name1, names, linked \cup {name1}) IN
              ClusterFrom(names, i + 1, linked \cup {name1} \cup Range(js),
                          Append(acc, [rep |-> name1, members |-> <<name1>> \o js]))

\* df[text_column].value_counts(): number of rows carrying the name.
NameCount(frame, n) == Cardinality({i \in DOMAIN frame : frame[i].name = n})

\* Mutant of AddPerfectDupes: the pass does not look into the groups built.
RECURSIVE AddPerfectDupesUnchecked(_, _, _)
AddPerfectDupesUnchecked(frame, names, acc) ==
    IF names = <<>> THEN acc
    ELSE LET name == Head(names) IN
         IF NameCount(frame, name) > 1
         THEN AddPerfectDupesUnchecked(frame, Tail(names),
                                       Append(acc, [rep |-> name, members |-> <<name>>]))
         ELSE AddPerfectDupesUnchecked(frame, Tail(names), acc)

\* The standalone pass: a name carried by more than one row that is in no
\* group's list becomes a group of its own.
RECURSIVE AddPerfectDupes(_, _, _)
AddPerfectDupes(frame, names, acc) ==
    IF names = <<>> THEN acc
    ELSE LET name == Head(names) IN
         IF NameCount(frame, name) > 1
            /\ ~ \E k \in DOMAIN acc : name \in Range(acc[k].members)
         THEN AddPerfectDupes(frame, Tail(names),
                              Append(acc, [rep |-> name, members |-> <<name>>]))
         ELSE AddPerfectDupes(frame, Tail(names), acc)

BuildGroups(frame) ==
    LET names == NamesToCompare(frame) IN
    AddPerfectDupes(frame, names, ClusterFrom(names, 1, {}, <<>>))

\* df[df[text_column].isin(similar_names_list)]: the rows of a group, file order.
RECURSIVE RowsNamed(_, _)
RowsNamed(frame, S) ==
    IF frame = <<>> THEN <<>>
    ELSE IF Head(frame).name \in S THEN <<Head(frame)>> \o RowsNamed(Tail(frame), S)
    ELSE RowsNamed(Tail(frame), S)

\* Mutant of GroupDf: one row for each name of the group.
GroupDfOnePerName(frame, g) ==
    LET rows == RowsNamed(frame, Range(g.members))
    IN  Keep(rows, {rows[i] : i \in {j \in DOMAIN rows :
                                       \A h \in 1..(j - 1) : rows[h].name # rows[j].name}})

GroupDf(frame, g) == RowsNamed(frame, Range(g.members))

\* Mutant of RowsWithId: every row of the group, approved or not.
RowsWithIdAll(frame, S) == frame

\* group_df[group_df[ID_COLUMN].isin(approved_record_ids)]
RECURSIVE RowsWithId(_, _)
RowsWithId(frame, S) ==
    IF frame = <<>> THEN <<>>
    ELSE IF Head(frame).id \in S THEN <<Head(frame)>> \o RowsWithId(Tail(frame), S)
    ELSE RowsWithId(Tail(frame), S)

\* Mutant of IdxMax: the last row holding the maximum.
IdxMaxLast(rows) ==
    CHOOSE i \in DOMAIN rows :
        /\ \A j \in DOMAIN rows : rows[j].mtime <= rows[i].mtime
        /\ \A j \in DOMAIN rows : rows[j].mtime = rows[i].mtime => j <= i

\* idxmax of Modified Time: the first row holding the maximum.
IdxMax(rows) ==
    CHOOSE i \in DOMAIN rows :
        /\ \A j \in DOMAIN rows : rows[j].mtime <= rows[i].mtime
        /\ \A j \in DOMAIN rows : rows[j].mtime = rows[i].mtime => i <= j

Decision(canon, dup) ==
    [canonical_record_id |-> canon.id, canonical_name |-> canon.name,
     duplicate_record_id |-> dup.id, duplicate_name |-> dup.name,
     user_decision |-> "MERGE"]

\* Mutant of EmitFor: the loop does not skip the canonical record.
RECURSIVE EmitForNoSkip(_, _)
EmitForNoSkip(canon, rows) ==
    IF rows = <<>> THEN <<>>
    ELSE <<Decision(canon, Head(rows))>> \o EmitForNoSkip(canon, Tail(rows))

\* The loop over final_group_df: one decision per row other than the canonical.
RECURSIVE EmitFor(_, _)
EmitFor(canon, rows) ==
    IF rows = <<>> THEN <<>>
    ELSE IF Head(rows).id = canon.id THEN EmitFor(canon, Tail(rows))
    ELSE <<Decision(canon, Head(rows))>> \o EmitFor(canon, Tail(rows))

\* What one reviewed group adds to user_decisions, given the dialog's approved ids.
GroupDecisions(group_df, approved_record_ids) ==
    IF Len(approved_record_ids) < 2 THEN <<>>
    ELSE LET final == RowsWithId(group_df, Range(approved_record_ids))
             canon == final[IdxMax(final)]
         IN  EmitFor(canon, final)

\* A decisions file left by an earlier session on the same input file.
PriorStore ==
    File(<<[canonical_record_id |-> 8, canonical_name |-> "A",
            duplicate_record_id |-> 9, duplicate_name |-> "A",
            user_decision |-> "MERGE"]>>)

OwnIdle == own = <<>> /\ own_out = <<>>
MatchIdle ==
    /\ ref = <<>> /\ wr = <<>> /\ df_ui = <<>> /\ latest = <<>>
    /\ run = 0 /\ first = <<>>
DepIdle == dep = <<>> /\ id_remap = <<>> /\ id_to_name = <<>> /\ dep_out = <<>>

LoadIdle ==
    /\ mapping = {} /\ catalog = {} /\ lookups = <<>> /\ df_raw = <<>>
    /\ remaps = <<>> /\ df_out = <<>> /\ output = NoFile /\ log = {}
    /\ today = 0 /\ runs = <<>>

ReviewIdle ==
    /\ df = <<>> /\ sim = <<>> /\ groups = <<>> /\ gi = 0 /\ dialog = <<>>
    /\ approved = <<>> /\ presented = <<>>
    /\ user_decisions = <<>> /\ cache = NoFile /\ cache0 = NoFile /\ writes = 0

\* The name of the first row is called "A": the scorer ranges over every
\* table, so the names are interchangeable.
InitReview ==
    /\ pc = "start"
    /\ \E ns \in [1..NumRecs -> Names], ts \in [1..NumRecs -> Times] :
           /\ ns[1] = "A"
           /\ df = [i \in 1..NumRecs |-> Row(i, ns[i], ts[i])]
    /\ sim \in [NamePairs -> SimLevels]
    /\ groups = <<>> /\ gi = 0 /\ dialog = <<>> /\ user_decisions = <<>>
    /\ approved = <<>> /\ presented = <<>>
    /\ cache0 \in {NoFile, PriorStore}
    /\ cache = cache0
    /\ writes = 0
    /\ OwnIdle /\ DepIdle /\ MatchIdle /\ LoadIdle

\* No file chosen, the name column missing, or the CSV unreadable: main returns.
LoadAbort ==
    /\ pc = "start"
    /\ pc' = "done"
    /\ UNCHANGED <<reviewVars, notReview>>

\* Lines 98-119: the groups are built and the review loop starts.
Cluster ==
    /\ pc = "start"
    /\ groups' = BuildGroups(df)
    /\ gi' = 1
    /\ pc' = "review"
    /\ UNCHANGED <<df, sim, dialog, approved, presented, user_decisions, cache, cache0,
                   writes, notReview>>

\* A group with fewer than two rows is passed over.
PassSmall ==
    /\ pc = "review" /\ gi <= Len(groups)
    /\ Len(GroupDf(df, groups[gi])) < 2
    /\ gi' = gi + 1
    /\ UNCHANGED <<pc, df, sim, groups, dialog, approved, presented, user_decisions,
                   cache, cache0, writes, notReview>>

\* Mutant of Present: a group is presented whatever the number of its rows.
PresentAny ==
    /\ pc = "review" /\ gi <= Len(groups)
    /\ dialog' = GroupDf(df, groups[gi])
    /\ presented' = Append(presented, gi)
    /\ pc' = "presenting"
    /\ UNCHANGED <<df, sim, groups, gi, approved, user_decisions, cache, cache0, writes,
                   notReview>>

\* The group is logged as presented, the dialog opens on the group's rows
\* and the script waits for it.
Present ==
    /\ pc = "review" /\ gi <= Len(groups)
    /\ Len(GroupDf(df, groups[gi])) >= 2
    /\ dialog' = GroupDf(df, groups[gi])
    /\ presented' = Append(presented, gi)
    /\ pc' = "presenting"
    /\ UNCHANGED <<df, sim, groups, gi, approved, user_decisions, cache, cache0, writes,
                   notReview>>

DialogIds == [i \in DOMAIN dialog |-> dialog[i].id]

\* on_confirm, "Confirm Selections": the ids of the checked boxes, in the
\* order of the items; the dialog is destroyed.
Confirm ==
    /\ pc = "presenting"
    /\ \E S \in SUBSET Range(DialogIds) : approved' = Keep(DialogIds, S)
    /\ dialog' = <<>>
    /\ pc' = "confirmed"
    /\ UNCHANGED <<df, sim, groups, gi, presented, user_decisions, cache, cache0, writes,
                   notReview>>

\* on_skip, "Skip Group" or the window closed: no id is approved.
Skip ==
    /\ pc = "presenting"
    /\ approved' = <<>>
    /\ dialog' = <<>>
    /\ pc' = "skipped"
    /\ UNCHANGED <<df, sim, groups, gi, presented, user_decisions, cache, cache0, writes,
                   notReview>>

\* Mutant of AfterDialog: the decisions collected so far are saved after each group.
AfterDialogAndSave ==
    /\ pc \in {"confirmed", "skipped"}
    /\ user_decisions' =
           user_decisions \o GroupDecisions(GroupDf(df, groups[gi]), approved)
    /\ approved' = <<>>
    /\ gi' = gi + 1
    /\ pc' = "review"
    /\ cache' = File(user_decisions')
    /\ writes' = writes + 1
    /\ UNCHANGED <<df, sim, groups, dialog, presented, cache0, notReview>>

\* Lines 139-166: what the loop body does once the dialog has returned.
AfterDialog ==
    /\ pc \in {"confirmed", "skipped"}
    /\ user_decisions' =
           user_decisions \o GroupDecisions(GroupDf(df, groups[gi]), approved)
    /\ approved' = <<>>
    /\ gi' = gi + 1
    /\ pc' = "review"
    /\ UNCHANGED <<df, sim, groups, dialog, presented, cache, cache0, writes, notReview>>

\* An end of session that saves the empty list of decisions.
FinishEmptyWriting ==
    /\ pc = "review" /\ gi > Len(groups)
    /\ user_decisions = <<>>
    /\ cache' = File(user_decisions)
    /\ pc' = "done"
    /\ UNCHANGED <<df, sim, groups, gi, dialog, approved, presented, user_decisions,
                   cache0, writes, notReview>>

\* Lines 168-171: nothing confirmed, nothing written.
FinishEmpty ==
    /\ pc = "review" /\ gi > Len(groups)
    /\ user_decisions = <<>>
    /\ pc' = "done"
    /\ UNCHANGED <<reviewVars, notReview>>

\* Lines 173-179: the decisions are written over the file of the source key.
WriteCache ==
    /\ pc = "review" /\ gi > Len(groups)
    /\ user_decisions # <<>>
    /\ cache' = File(user_decisions)
    /\ writes' = writes + 1
    /\ pc' = "done"
    /\ UNCHANGED <<df, sim, groups, gi, dialog, approved, presented, user_decisions,
                   cache0, notReview>>

\* The process is killed before it reached the write.
Interrupt ==
    /\ pc \in {"start", "review", "presenting", "confirmed", "skipped"}
    /\ pc' = "aborted"
    /\ UNCHANGED <<reviewVars, notReview>>

NextReview ==
    \/ LoadAbort \/ Cluster \/ PassSmall \/ Present \/ Confirm \/ Skip \/ AfterDialog
    \/ FinishEmpty \/ WriteCache \/ Interrupt

SpecReview == InitReview /\ [][NextReview]_vars

\* ------------------------------------------------------- claims on the review
NoChain(ds) ==
    \A i \in DOMAIN ds, j \in DOMAIN ds :
        ds[i].canonical_record_id # ds[j].duplicate_record_id

\* C1: at every point of a review session, and in the decisions file the
\* session writes, no record id that is the canonical_record_id of a decision
\* is the duplicate_record_id of a decision: merges are single-level.
C1_NoMergeChain ==
    /\ NoChain(user_decisions)
    /\ (writes > 0 => NoChain(cache.rows))

\* Two groups were merged in one session and the file was written.
C1_Witness ==
    /\ pc = "done" /\ writes = 1
    /\ \E i \in DOMAIN cache.rows, j \in DOMAIN cache.rows :
           cache.rows[i].canonical_record_id # cache.rows[j].canonical_record_id

\* C2: the decisions file is written at most once per session, only by the
\* step that follows the review of the last group, and a session that was
\* interrupted before that step leaves the file as it found it.
C2_WriteOnceAtEnd ==
    /\ writes <= 1
    /\ (writes = 1 => pc = "done" /\ gi > Len(groups) /\ cache = File(user_decisions))
    /\ (writes = 0 => cache = cache0)
    /\ (pc = "aborted" => writes = 0)

\* The session was interrupted after the reviewer had confirmed merges, with
\* groups still to review.
C2_Witness ==
    /\ pc = "aborted" /\ user_decisions # <<>> /\ gi <= Len(groups)
    /\ cache = cache0

GroupsBuilt == gi > 0
GroupsOf(n) == {k \in DOMAIN groups : n \in Range(groups[k].members)}
DfNames == {df[i].name : i \in DOMAIN df}

\* C11 as stated: any two names of the input that score exactly the
\* threshold are in one group, and any two that score one point below are not.
C11_AsStated ==
    GroupsBuilt =>
        \A a \in DfNames, b \in DfNames :
            a # b =>
                /\ TokenSortRatio(a, b) = SIMILARITY_THRESHOLD => GroupsOf(a) = GroupsOf(b)
                /\ TokenSortRatio(a, b) = SIMILARITY_THRESHOLD - 1 =>
                       GroupsOf(a) \cap GroupsOf(b) = {}

\* C11: a name other than the representative is a member of a group exactly
\* when it is in no earlier group and its score against the representative
\* of the group is at least the threshold: a name still unassigned joins the
\* representative at a score equal to the threshold and does not join it at
\* one point below.
C11_BoundaryAgainstRepresentative ==
    GroupsBuilt =>
        \A k \in DOMAIN groups, n \in DfNames :
            n # groups[k].rep =>
                (n \in Range(groups[k].members)
                    <=> /\ TokenSortRatio(groups[k].rep, n) >= SIMILARITY_THRESHOLD
                        /\ \A h \in 1..(k - 1) : n \notin Range(groups[h].members))

\* A name joined its representative at exactly the threshold while a third
\* name, one point below against that representative, started its own group.
C11_Witness ==
    /\ GroupsBuilt
    /\ \E k \in DOMAIN groups, h \in DOMAIN groups, n \in DfNames :
           /\ k # h
           /\ n # groups[k].rep
           /\ n \in Range(groups[k].members)
           /\ TokenSortRatio(groups[k].rep, n) = SIMILARITY_THRESHOLD
           /\ TokenSortRatio(groups[k].rep, groups[h].rep) = SIMILARITY_THRESHOLD - 1

\* C12: once the groups are built every distinct name of the input is in the
\* member list of exactly one group, once, so that every record is among
\* the rows of exactly one group.
C12_OneGroupPerName ==
    GroupsBuilt =>
        /\ \A n \in DfNames : Cardinality(GroupsOf(n)) = 1
        /\ \A k \in DOMAIN groups :
               \A i, j \in DOMAIN groups[k].members :
                   groups[k].members[i] = groups[k].members[j] => i = j
        /\ \A i \in DOMAIN df :
               Cardinality({k \in DOMAIN groups : df[i] \in Range(GroupDf(df, groups[k]))}) = 1

\* A name carried by two rows sits in the group of another representative,
\* next to a second group: the standalone pass had a candidate and added nothing.
C12_Witness ==
    /\ GroupsBuilt
    /\ Len(groups) >= 2
    /\ \E k \in DOMAIN groups, n \in DfNames :
           /\ n # groups[k].rep
           /\ n \in Range(groups[k].members)
           /\ NameCount(df, n) > 1

\* The decisions a step appended to user_decisions.
NewDecisions ==
    [k \in 1..(Len(user_decisions') - Len(user_decisions)) |->
        user_decisions'[Len(user_decisions) + k]]
LoopBodyStep == pc \in {"confirmed", "skipped"} /\ pc' = "review"

\* C13: when the loop body works on two or more approved records, the
\* canonical id of every decision it emits is an approved record whose
\* Modified Time no approved record exceeds and, among the approved records
\* with that time, the first in the order of the input.
C13_CanonicalIsFirstMax ==
    [][(LoopBodyStep /\ Len(approved) >= 2) =>
           /\ NewDecisions # <<>>
           /\ \A k \in DOMAIN NewDecisions :
                  LET c == NewDecisions[k].canonical_record_id
                  IN  /\ c \in Range(approved)
                      /\ \A a \in Range(approved) :
                             /\ df[a].mtime <= df[c].mtime
                             /\ df[a].mtime = df[c].mtime => c <= a]_vars

\* A decision merged a record into an earlier record of the same time, and a
\* third approved record of that group was older.
C13_Witness ==
    /\ pc = "review"
    /\ \E i, j \in DOMAIN user_decisions :
           LET d == user_decisions[i]
               e == user_decisions[j]
           IN  /\ d.canonical_record_id = e.canonical_record_id
               /\ df[d.duplicate_record_id].mtime = df[d.canonical_record_id].mtime
               /\ d.canonical_record_id < d.duplicate_record_id
               /\ df[e.duplicate_record_id].mtime < df[e.canonical_record_id].mtime

\* C14: the loop body emits nothing for fewer than two approved records;
\* for an approved list A of two or more it emits |A| - 1 decisions, all
\* MERGE, all with the same canonical id taken from A, one for each other
\* record of A as duplicate id.
C14_OneDecisionPerOtherApproved ==
    [][LoopBodyStep =>
           /\ \A k \in DOMAIN user_decisions : user_decisions'[k] = user_decisions[k]
           /\ IF Len(approved) < 2 THEN NewDecisions = <<>>
              ELSE /\ Len(NewDecisions) = Len(approved) - 1
                   /\ \E c \in Range(approved) :
                          /\ \A k \in DOMAIN NewDecisions :
                                 /\ NewDecisions[k].canonical_record_id = c
                                 /\ NewDecisions[k].user_decision = "MERGE"
                          /\ \A a \in Range(approved) \ {c} :
                                 Cardinality({k \in DOMAIN NewDecisions :
                                     NewDecisions[k].duplicate_record_id = a}) = 1]_vars

\* Three records were approved in one group: the session holds exactly the
\* two decisions that merge the two others into the canonical one.
C14_Witness ==
    /\ pc = "review"
    /\ Len(presented) >= 1
    /\ Len(user_decisions) = 2
    /\ user_decisions[1].canonical_record_id = user_decisions[2].canonical_record_id
    /\ user_decisions[1].duplicate_record_id # user_decisions[2].duplicate_record_id

\* The position of a name in names_to_compare.
PosOf(n) == CHOOSE i \in DOMAIN NamesToCompare(df) : NamesToCompare(df)[i] = n

\* C23: the groups are built greedily around representatives: the
\* representatives are in input order, each heads its member list, none is a
\* member of an earlier group, and every other member of a group scores at
\* least the threshold against the representative of the group.
C23_GreedyRepresentative ==
    GroupsBuilt =>
        /\ \A k \in DOMAIN groups : groups[k].members[1] = groups[k].rep
        /\ \A h, k \in DOMAIN groups :
               h < k => /\ PosOf(groups[h].rep) < PosOf(groups[k].rep)
                        /\ groups[k].rep \notin Range(groups[h].members)
        /\ \A k \in DOMAIN groups :
               \A i \in 2..Len(groups[k].members) :
                   TokenSortRatio(groups[k].rep, groups[k].members[i]) >= SIMILARITY_THRESHOLD

\* A group holds two members, neither the representative, that score below
\* the threshold against each other.
C23_Witness ==
    /\ GroupsBuilt
    /\ \E k \in DOMAIN groups :
           \E i, j \in 2..Len(groups[k].members) :
               /\ i # j
               /\ TokenSortRatio(groups[k].members[i], groups[k].members[j])
                      < SIMILARITY_THRESHOLD

InBody == pc \in {"presenting", "confirmed", "skipped"}
Presentable(k) == Len(GroupDf(df, groups[k])) >= 2

C15_Always ==
    /\ pc = "presenting" => dialog # <<>>
    /\ pc \in {"start", "review", "confirmed", "skipped", "done"} => dialog = <<>>
    /\ \A i, j \in DOMAIN presented : i < j => presented[i] < presented[j]
    /\ \A i \in DOMAIN presented : Presentable(presented[i])
    /\ \A k \in DOMAIN groups :
           (Presentable(k) /\ (k < gi \/ (k = gi /\ InBody))) => k \in Range(presented)
    /\ InBody => (presented # <<>> /\ presented[Len(presented)] = gi)
    /\ pc = "skipped" => approved = <<>>
    /\ (pc = "done" /\ gi > 0) => gi > Len(groups)

\* What holds of every step of the reviewer.
C15_Steps ==
    /\ presented' # presented =>
           /\ pc = "review" /\ pc' = "presenting"
           /\ dialog = <<>> /\ approved = <<>>
           /\ dialog' = GroupDf(df, groups[gi])
    /\ (pc = "presenting" /\ pc' # pc) => pc' \in {"confirmed", "skipped", "aborted"}
    /\ (pc' = "confirmed" /\ pc' # pc) =>
           Range(approved') \subseteq {dialog[i].id : i \in DOMAIN dialog}
    /\ (pc \in {"confirmed", "skipped"} /\ pc' # pc) => pc' \in {"review", "aborted"}

\* C15: the reviewer is idle, presenting one group, or has just been
\* confirmed or skipped; a group is presented only from idle, so one at a
\* time and the next one after the loop body of the last has ended; the
\* presented groups are those with two rows or more, each once, all of them
\* when the session ends; a presentation ends with the approved ids of the
\* checked items or, skipped or closed, with none.
C15_ReviewerProtocol == []C15_Always /\ [][C15_Steps]_vars

\* The session ended after a group was presented and another, of one row,
\* was passed over.
C15_Witness ==
    /\ pc = "done"
    /\ Len(presented) >= 1
    /\ \E k \in DOMAIN groups : ~Presentable(k)

\* =========================================================================
\*  The decisions file as the loaders read it
\* =========================================================================
NA == "NA"

\* Record ids as they stand in the files; " p1" is "p1" with a leading blank.
RawIds == {"p1", "p2", "p3", " p1"}

\* str.strip() on a record id.
Strip(x) == IF x = " p1" THEN "p1" ELSE x

\* Rows a decisions file may hold. fuzzy_dedup writes only MERGE rows with
\* names present; a file may also carry rows with another user_decision.
StoreRows ==
    [canonical_record_id : {"p1", "p2", "p3"}, canonical_name : {"A", "B"},
     duplicate_record_id : {"p1", "p2", " p1"}, duplicate_name : {"A"},
     user_decision : {"MERGE", "KEEP"}]

RECURSIVE SeqsUpTo(_, _)
SeqsUpTo(S, n) ==
    IF n = 0 THEN {<<>>}
    ELSE LET shorter == SeqsUpTo(S, n - 1) IN
         shorter \cup {Append(q, x) : q \in {r \in shorter : Len(r) = n - 1}, x \in S}

Stores == {NoFile} \cup {File(rows) : rows \in SeqsUpTo(StoreRows, MaxDecisions) \ {<<>>}}

\* df[df["user_decision"] == "MERGE"]
RECURSIVE MergeOnly(_)
MergeOnly(rows) ==
    IF rows = <<>> THEN <<>>
    ELSE IF Head(rows).user_decision = "MERGE"
         THEN <<Head(rows)>> \o MergeOnly(Tail(rows))
         ELSE MergeOnly(Tail(rows))

\* pd.Series(values, index=keys).to_dict(): the last row of a key wins.
LastAt(keys, k) ==
    CHOOSE i \in DOMAIN keys :
        /\ keys[i] = k
        /\ \A j \in DOMAIN keys : keys[j] = k => j <= i

DupIds(rows) == [i \in DOMAIN rows |-> rows[i].duplicate_record_id]
CanonIds(rows) == [i \in DOMAIN rows |-> rows[i].canonical_record_id]

\* Mutant of BuildIdRemap: the index and the values are swapped.
BuildIdRemapSwapped(rows) ==
    LET m == MergeOnly(rows) IN
    [k \in Range(CanonIds(m)) |-> DupIds(m)[LastAt(CanonIds(m), k)]]

BuildIdRemap(rows) ==
    LET m == MergeOnly(rows) IN
    [k \in Range(DupIds(m)) |-> CanonIds(m)[LastAt(DupIds(m), k)]]

\* Mutant of BuildIdToName: the rows are not filtered on MERGE.
BuildIdToNameAll(rows) ==
    [k \in Range(CanonIds(rows)) |-> rows[LastAt(CanonIds(rows), k)].canonical_name]

BuildIdToName(rows) ==
    LET m == MergeOnly(rows) IN
    [k \in Range(CanonIds(m)) |-> m[LastAt(CanonIds(m), k)].canonical_name]

\* =========================================================================
\*  load_products.py (load_partners.py has the same block)
\* =========================================================================
\* df_prod["Record Id"] = prod_raw["Record Id"].str.strip()
RawIdOrder == <<"p1", " p1", "p2", "p3">>
OwnTables == {Keep(RawIdOrder, S) : S \in {T \in SUBSET RawIds : Cardinality(T) >= 2}}

OwnFrame(raws) == [i \in DOMAIN raws |-> [id |-> Strip(raws[i]), raw |-> raws[i]]]

\* Mutant of IdsToDrop: the set is taken from every row of the file.
IdsToDropUnfiltered(rows) == {rows[i].duplicate_record_id : i \in DOMAIN rows}

\* set(merge_decisions["duplicate_record_id"])
IdsToDrop(rows) ==
    LET m == MergeOnly(rows) IN {m[i].duplicate_record_id : i \in DOMAIN m}

\* df_prod[~df_prod["Record Id"].isin(ids_to_drop)]
RECURSIVE DropIds(_, _)
DropIds(frame, S) ==
    IF frame = <<>> THEN <<>>
    ELSE IF Head(frame).id \in S THEN DropIds(Tail(frame), S)
    ELSE <<Head(frame)>> \o DropIds(Tail(frame), S)

InitOwn ==
    /\ pc = "prod_start"
    /\ cache \in Stores
    /\ cache0 = cache
    /\ \E t \in OwnTables : own = OwnFrame(t)
    /\ own_out = <<>>
    /\ df = <<>> /\ sim = <<>> /\ groups = <<>> /\ gi = 0 /\ dialog = <<>>
    /\ approved = <<>> /\ presented = <<>>
    /\ user_decisions = <<>> /\ writes = 0
    /\ DepIdle /\ MatchIdle /\ LoadIdle

\* The decisions file is absent: a warning, no record removed.
ProdNoDecisions ==
    /\ pc = "prod_start" /\ cache = NoFile
    /\ own_out' = own
    /\ pc' = "prod_done"
    /\ UNCHANGED <<cache, cache0, own, notOwn>>

\* The file is read and the records merged away are removed.
ProdApplyDecisions ==
    /\ pc = "prod_start" /\ cache # NoFile
    /\ own_out' = (IF IdsToDrop(cache.rows) # {} THEN DropIds(own, IdsToDrop(cache.rows)) ELSE own)
    /\ pc' = "prod_done"
    /\ UNCHANGED <<cache, cache0, own, notOwn>>

NextOwn == ProdNoDecisions \/ ProdApplyDecisions

SpecOwn == InitOwn /\ [][NextOwn]_vars

\* =========================================================================
\*  load_courseEnrollments.py (load_enrichmentEnrollments.py remaps alike)
\* =========================================================================
\* A row of the dependent table: the product id column and the product name column.
DepRows == [fk : {"p1", "p2", "p3", NA}, name : {"X", NA}]

\* Series.replace(id_remap): a value that is a key becomes its image, once.
Replace(v, m) == IF v \in DOMAIN m THEN m[v] ELSE v

\* Series.map(id_to_name).fillna(other)
MapFillna(v, m, other) == IF v \in DOMAIN m THEN m[v] ELSE other

\* Mutant of Canonicalize: the name is looked up under the id before the remap.
CanonicalizeNameFirst(row, remap, names) ==
    [fk   |-> IF DOMAIN remap # {} THEN Replace(row.fk, remap) ELSE row.fk,
     name |-> IF DOMAIN names # {} THEN MapFillna(row.fk, names, row.name) ELSE row.name]

\* Lines 172-175: the id column is remapped, then the name column is looked up
\* under the id column as it then stands.
Canonicalize(row, remap, names) ==
    LET fk2 == IF DOMAIN remap # {} THEN Replace(row.fk, remap) ELSE row.fk IN
    [fk   |-> fk2,
     name |-> IF DOMAIN names # {} THEN MapFillna(fk2, names, row.name) ELSE row.name]

InitDep ==
    /\ pc = "enr_start"
    /\ cache \in Stores
    /\ cache0 = cache
    /\ dep \in [1..NumDep -> DepRows]
    /\ id_remap = <<>> /\ id_to_name = <<>> /\ dep_out = <<>>
    /\ df = <<>> /\ sim = <<>> /\ groups = <<>> /\ gi = 0 /\ dialog = <<>>
    /\ approved = <<>> /\ presented = <<>>
    /\ user_decisions = <<>> /\ writes = 0
    /\ OwnIdle /\ MatchIdle /\ LoadIdle

\* _load_product_decisions: the file is absent, both tables are empty.
LoadDecisionsMissing ==
    /\ pc = "enr_start" /\ cache = NoFile
    /\ id_remap' = <<>> /\ id_to_name' = <<>>
    /\ pc' = "enr_loaded"
    /\ UNCHANGED <<cache, cache0, dep, dep_out, notDep>>

\* _load_product_decisions: the two tables are built from the MERGE rows.
LoadDecisions ==
    /\ pc = "enr_start" /\ cache # NoFile
    /\ id_remap' = BuildIdRemap(cache.rows)
    /\ id_to_name' = BuildIdToName(cache.rows)
    /\ pc' = "enr_loaded"
    /\ UNCHANGED <<cache, cache0, dep, dep_out, notDep>>

\* main, step 3: every row of the dependent table is canonicalized.
CanonicalizeProducts ==
    /\ pc = "enr_loaded"
    /\ dep_out' = [i \in DOMAIN dep |-> Canonicalize(dep[i], id_remap, id_to_name)]
    /\ pc' = "enr_done"
    /\ UNCHANGED <<cache, cache0, dep, id_remap, id_to_name, notDep>>

NextDep == LoadDecisionsMissing \/ LoadDecisions \/ CanonicalizeProducts

SpecDep == InitDep /\ [][NextDep]_vars

\* Step 3 of main once more, on the table the first pass produced and with
\* the same two dictionaries.
CanonicalizeAgain ==
    /\ pc = "enr_done"
    /\ runs' = <<[i \in DOMAIN dep_out |-> Canonicalize(dep_out[i], id_remap, id_to_name)]>>
    /\ pc' = "enr_again"
    /\ UNCHANGED <<today, cache, cache0, depVars, reviewOnly, ownVars, matchVars, loadVars>>

SpecDepTwice == InitDep /\ [][NextDep \/ CanonicalizeAgain]_vars

\* ------------------------------------------------- claims on the loaders
IsMergeOf(d, id) == d.user_decision = "MERGE" /\ d.duplicate_record_id = id

\* C4: after the deduplication block a record of the entity's own table is
\* gone exactly when its Record Id is the duplicate_record_id of a MERGE row
\* of the decisions file; every other record is kept, in its place.
C4_DropExactlyDuplicates ==
    pc = "prod_done" =>
        /\ \A i \in DOMAIN own :
               (own[i] \in Range(own_out)) <=>
                   ~ \E k \in DOMAIN cache.rows : IsMergeOf(cache.rows[k], own[i].id)
        /\ Range(own_out) \subseteq Range(own)
        /\ Len(own_out) = Cardinality(Range(own_out))

\* A duplicate was dropped, its canonical record and a record named only by
\* a row that is no MERGE were kept.
C4_Witness ==
    /\ pc = "prod_done"
    /\ \E k \in DOMAIN cache.rows, i \in DOMAIN own, j \in DOMAIN own :
           /\ IsMergeOf(cache.rows[k], own[i].id)
           /\ own[i] \notin Range(own_out)
           /\ own[j].id = cache.rows[k].canonical_record_id
           /\ own[j] \in Range(own_out)
    /\ \E k \in DOMAIN cache.rows, i \in DOMAIN own :
           /\ cache.rows[k].user_decision # "MERGE"
           /\ cache.rows[k].duplicate_record_id = own[i].id
           /\ own[i] \in Range(own_out)

\* C3: every row of the dependent table ends with foreign key
\* fk' = id_remap[fk] if fk is a key of id_remap and fk otherwise, and with
\* name id_to_name[fk'] if fk' is a key of id_to_name and its own name
\* otherwise; a row whose key is the duplicate of a MERGE row of the file ends
\* with that row's canonical id and a canonical name the file gives that id.
C3_RemapThenName ==
    pc = "enr_done" =>
        \A i \in DOMAIN dep :
            LET fk  == dep[i].fk
                fk2 == IF fk \in DOMAIN id_remap THEN id_remap[fk] ELSE fk
                rows == cache.rows
            IN  /\ dep_out[i].fk = fk2
                /\ dep_out[i].name =
                       (IF fk2 \in DOMAIN id_to_name THEN id_to_name[fk2] ELSE dep[i].name)
                /\ \A k \in DOMAIN rows :
                       (/\ IsMergeOf(rows[k], fk)
                        /\ \A j \in DOMAIN rows : IsMergeOf(rows[j], fk) => j <= k)
                       => /\ dep_out[i].fk = rows[k].canonical_record_id
                          /\ \E j \in DOMAIN rows :
                                 /\ rows[j].user_decision = "MERGE"
                                 /\ rows[j].canonical_record_id = dep_out[i].fk
                                 /\ rows[j].canonical_name = dep_out[i].name

\* A row referenced a merged-away duplicate that is itself no canonical id:
\* its key changed and its name is the canonical's.
C3_Witness ==
    /\ pc = "enr_done"
    /\ \E i \in DOMAIN dep :
           /\ dep[i].fk \in DOMAIN id_remap
           /\ dep[i].fk \notin DOMAIN id_to_name
           /\ dep_out[i].fk # dep[i].fk
           /\ dep_out[i].name # dep[i].name

\* ------------------------------------------------------------------------
\* load_schools.py: the tiered matcher against the NCES reference table,
\* the overwrite of the matched rows and the deduplication that follows.
\* ------------------------------------------------------------------------

NumRefs == 3         \* rows of the reference table the matcher is run against
NumRerunRefs == 2    \* rows of the reference table when the pipeline is re-run
NumSchools == 2      \* legacy school records when the pipeline is re-run

\* Cells that hold an identifier: missing (NaN), None, or a string, kept as
\* the sequence of its characters so that containment is a real sub-string test.
NaN == [k |-> "nan", v |-> <<>>]
None == [k |-> "none", v |-> <<>>]
Str(v) == [k |-> "str", v |-> v]
IsNa(x) == x.k # "str"

\* str.contains(needle, regex=False)
Contains(hay, needle) ==
    \E i \in 1..(Len(hay) + 1) :
        /\ i + Len(needle) - 1 <= Len(hay)
        /\ SubSeq(hay, i, i + Len(needle) - 1) = needle

\* The reference identifiers are distinct; row i of the table carries RefIdAt(i).
RefIdAt(i) ==
    <<(<<"1", "2", "3">>)[1 + ((i - 1) \div 2)], (<<"1", "2">>)[1 + ((i - 1) % 2)]>>

SchoolTypes == {"Public", "Private"}
RefStates == {"Texas", "California"}
RefNames == {"A", "B"}
LegacyNames == {"Q.", NA}
LegacyStates == {"TEXAS", "California"}
LegacyIds == {NaN, Str(<<"1">>), Str(<<"2">>), Str(<<"1", "2">>), Str(<<"9">>)}

\* norm_name: a missing name is the empty string; punctuation goes, case is lowered.
norm_name(s) ==
    CASE s = NA   -> ""
      [] s = "Q." -> "q"
      [] s = "A"  -> "a"
      [] s = "B"  -> "b"
      [] OTHER    -> s

\* str.title() of the State column; a missing state stays missing.
Title(s) ==
    CASE s = "TEXAS" -> "Texas"
      [] s = "texas" -> "Texas"
      [] OTHER       -> s

WrDomain == {<<norm_name(l), norm_name(r)>> : l \in LegacyNames \ {NA}, r \in RefNames}
SchoolLevels == {89, 90, 94, 95}

\* fuzz.WRatio: 0 when a side is empty, 100 on identical strings.
WRatio(target, choice) ==
    IF target = "" \/ choice = "" THEN 0
    ELSE IF target = choice THEN 100
    ELSE wr[<<target, choice>>]

\* ref_all after the concatenation of the public and the private table: a
\* private row has no Website column.
RefRow(i, t, st, n) ==
    [nces |-> Str(RefIdAt(i)), stype |-> t, state |-> st, name |-> n,
     web |-> IF t = "Public" THEN "w" ELSE NA, setting |-> "ref setting"]

RefTables(n) ==
    {[i \in 1..n |-> RefRow(i, ts[i], sts[i], ns[i])] :
        ts \in [1..n -> SchoolTypes], sts \in [1..n -> RefStates],
        ns \in [1..n -> RefNames]}

\* A row of df_ui before the enrichment. A column a loader does not have, or
\* has not made yet, holds NA, 0 or "-". web stands for the columns both
\* loaders overwrite (address, phone, website, type), setting for those only
\* the schools loader overwrites (parent key, setting, size, grades), note for
\* the mapped columns no loader overwrites.
SchoolRow(id, t, lid, n, st, mt) ==
    [rid |-> id, stype |-> t, lid |-> lid, oname |-> n, name |-> n,
     nces |-> NaN, state |-> st, state_full |-> NA, web |-> "legacy web",
     setting |-> "legacy setting", note |-> "legacy note", mtime |-> mt,
     match_idx |-> 0, tier |-> "-", official |-> NA]

\* The labels of the reference rows satisfying a condition, in table order.
RefSubset(t) == Keep([i \in DOMAIN ref |-> i], {i \in DOMAIN ref : ref[i].stype = t})
IdMatchSubset(t, lid) ==
    Keep([i \in DOMAIN ref |-> i],
         {i \in DOMAIN ref : ref[i].stype = t /\ Contains(ref[i].nces.v, lid.v)})
RegionalCandsAnyType(t, state_key) ==
    Keep([i \in DOMAIN ref |-> i], {i \in DOMAIN ref : ref[i].state = state_key})
RegionalCands(t, state_key) ==
    Keep([i \in DOMAIN ref |-> i],
         {i \in DOMAIN ref : ref[i].state = state_key /\ ref[i].stype = t})

\* The series handed to the scorer: the normalised names of the rows, keyed
\* by the labels of the rows.
Choices(labels) ==
    [k \in DOMAIN labels |-> [key |-> labels[k], val |-> norm_name(ref[labels[k]].name)]]

BestScore(target, choices) ==
    CHOOSE b \in 0..100 :
        /\ \A k \in DOMAIN choices : WRatio(target, choices[k].val) <= b
        /\ choices # <<>> => \E k \in DOMAIN choices : WRatio(target, choices[k].val) = b
        /\ choices = <<>> => b = 0

\* process.extractOne: the key of the first choice with the greatest score, if
\* that score reaches the cutoff; 0 stands for None.
extractOne(target, choices, score_cutoff) ==
    IF choices = <<>> \/ BestScore(target, choices) < score_cutoff THEN 0
    ELSE LET k == CHOOSE k \in DOMAIN choices :
                     /\ WRatio(target, choices[k].val) = BestScore(target, choices)
                     /\ \A j \in 1..(k - 1) :
                            WRatio(target, choices[j].val) < BestScore(target, choices)
         IN  choices[k].key

\* A tier 1 that ranks several hits with the regional cutoff.
IdTierWithCutoff(row) ==
    IF IsNa(row.lid) THEN 0
    ELSE LET id_match_subset == IdMatchSubset(row.stype, row.lid)
         IN  IF id_match_subset = <<>> THEN 0
             ELSE IF Len(id_match_subset) = 1 THEN id_match_subset[1]
             ELSE extractOne(norm_name(row.oname), Choices(id_match_subset), 90)

\* Tier 1: sub-string search of the legacy id in the ids of the partition; a
\* single hit is returned as it is, several hits are ranked by name.
IdTier(row) ==
    IF IsNa(row.lid) THEN 0
    ELSE LET id_match_subset == IdMatchSubset(row.stype, row.lid)
         IN  IF id_match_subset = <<>> THEN 0
             ELSE IF Len(id_match_subset) = 1 THEN id_match_subset[1]
             ELSE extractOne(norm_name(row.oname), Choices(id_match_subset), 0)

\* Tier 2: the rows of the record's state and type, cutoff 90.
RegionalTierLoose(row) ==
    extractOne(norm_name(row.oname), Choices(RegionalCands(row.stype, row.state_full)), 89)
RegionalTier(row) ==
    extractOne(norm_name(row.oname), Choices(RegionalCands(row.stype, row.state_full)), 90)

\* Tier 3: every row of the record's type, cutoff 95.
NationalTierLoose(row) ==
    extractOne(norm_name(row.oname), Choices(RefSubset(row.stype)), 94)
NationalTier(row) ==
    extractOne(norm_name(row.oname), Choices(RefSubset(row.stype)), 95)

find_match_index_fuzzy_first(row) ==
    IF RefSubset(row.stype) = <<>> THEN [idx |-> 0, tier |-> "NONE"]
    ELSE IF RegionalTier(row) # 0 THEN [idx |-> RegionalTier(row), tier |-> "REGIONAL_FUZZY"]
    ELSE IF NationalTier(row) # 0 THEN [idx |-> NationalTier(row), tier |-> "NATIONAL_FUZZY"]
    ELSE IF IdTier(row) # 0 THEN [idx |-> IdTier(row), tier |-> "ID"]
    ELSE [idx |-> 0, tier |-> "NONE"]
find_match_index(row) ==
    IF RefSubset(row.stype) = <<>> THEN [idx |-> 0, tier |-> "NONE"]
    ELSE IF IdTier(row) # 0 THEN [idx |-> IdTier(row), tier |-> "ID"]
    ELSE IF RegionalTier(row) # 0 THEN [idx |-> RegionalTier(row), tier |-> "REGIONAL_FUZZY"]
    ELSE IF NationalTier(row) # 0 THEN [idx |-> NationalTier(row), tier |-> "NATIONAL_FUZZY"]
    ELSE [idx |-> 0, tier |-> "NONE"]

\* An enrichment that assigns the reference columns over the whole frame, so
\* that an unmatched row is left with missing cells.
EnrichBlankingUnmatched(row) ==
    LET keyed == [row EXCEPT !.state_full = Title(row.state)]
        m == find_match_index(keyed)
        r == ref[m.idx]
    IN  IF m.idx = 0
        THEN [keyed EXCEPT !.match_idx = 0, !.tier = m.tier,
                           !.name = NA, !.nces = NaN, !.web = NA, !.setting = NA]
        ELSE [keyed EXCEPT !.match_idx = m.idx, !.tier = m.tier,
                           !.name = r.name, !.nces = r.nces,
                           !.state = r.state, !.web = r.web, !.setting = r.setting]

\* An enrichment that replaces a matched row by its reference row, the columns
\* the reference does not have included.
EnrichWholeRow(row) ==
    LET keyed == [row EXCEPT !.state_full = Title(row.state)]
        m == find_match_index(keyed)
        r == ref[m.idx]
    IN  IF m.idx = 0
        THEN [keyed EXCEPT !.match_idx = 0, !.tier = m.tier]
        ELSE [keyed EXCEPT !.match_idx = m.idx, !.tier = m.tier,
                           !.name = r.name, !.nces = r.nces,
                           !.state = r.state, !.web = r.web, !.setting = r.setting,
                           !.note = NA]

\* The overwrite of a matched row with the columns of its reference row; an
\* unmatched row keeps its legacy values.
Enrich(row) ==
    LET keyed == [row EXCEPT !.state_full = Title(row.state)]
        m == find_match_index(keyed)
        r == ref[m.idx]
    IN  IF m.idx = 0
        THEN [keyed EXCEPT !.match_idx = 0, !.tier = m.tier]
        ELSE [keyed EXCEPT !.match_idx = m.idx, !.tier = m.tier,
                           !.name = r.name, !.nces = r.nces,
                           !.state = r.state, !.web = r.web, !.setting = r.setting]

\* str(...).lower() and str(...).strip().upper() of the key parts; a missing
\* cell prints as "nan".
Lower(s) ==
    CASE s = NA   -> "nan"
      [] s = "A"  -> "a"
      [] s = "B"  -> "b"
      [] s = "Q." -> "q."
      [] s = "R." -> "r."
      [] s = "Q ISD" -> "q isd"
      [] s = "R ISD" -> "r isd"
      [] OTHER    -> s
Upper(s) ==
    CASE s = NA           -> "NAN"
      [] s = "Texas"      -> "TEXAS"
      [] s = "California" -> "CALIFORNIA"
      [] OTHER            -> s

NanKey == [k |-> "nan", v |-> <<>>, name |-> "", state |-> ""]
IdKey(v) == [k |-> "id", v |-> v, name |-> "", state |-> ""]
CompositeKey(n, st) == [k |-> "composite", v |-> <<>>, name |-> n, state |-> st]

\* a or b: None and the empty string are false, NaN is true.
PyOr(a, b) ==
    IF a.k = "nan" THEN NanKey
    ELSE IF a.k = "str" /\ a.v # <<>> THEN IdKey(a.v)
    ELSE b

school_key(r) == PyOr(r.nces, CompositeKey(Lower(r.name), Upper(r.state)))

\* sort_values(RECENCY_COL, na_position="first"): the rows without a time
\* first, in their order; then by time, rows of equal time in any order.
NaT == 0
Perms(n) == {p \in [1..n -> 1..n] : \A i, j \in 1..n : p[i] = p[j] => i = j}
SortOrders(frame) ==
    {p \in Perms(Len(frame)) :
        \A i, j \in 1..Len(frame) :
            i < j => /\ frame[p[i]].mtime <= frame[p[j]].mtime
                     /\ (frame[p[i]].mtime = NaT /\ frame[p[j]].mtime = NaT => p[i] < p[j])}

\* drop_duplicates(key, keep="last") of the sorted frame; keys[i] is the key
\* of row i of the sorted frame. Missing keys count as equal.
DropDuplicatesFirst(frame, keys) ==
    Keep(frame, {frame[i] : i \in {i \in DOMAIN frame :
                                      \A j \in DOMAIN frame : j < i => keys[j] # keys[i]}})
DropDuplicatesLast(frame, keys) ==
    Keep(frame, {frame[i] : i \in {i \in DOMAIN frame :
                                      \A j \in DOMAIN frame : j > i => keys[j] # keys[i]}})

Sorted(frame, p) == [i \in DOMAIN frame |-> frame[p[i]]]

\* main, step 3: match every row and overwrite the matched ones.
SchoolEnrich ==
    /\ pc = "sch_start"
    /\ df_ui' = [i \in DOMAIN df_ui |-> Enrich(df_ui[i])]
    /\ pc' = "sch_enriched"
    /\ UNCHANGED <<ref, wr, latest, run, first, notMatch>>

\* main, step 4: key, sort by recency and keep the last row of every key.
SchoolDedup ==
    /\ pc = "sch_enriched"
    /\ \E p \in SortOrders(df_ui) :
           latest' = DropDuplicatesLast(Sorted(df_ui, p),
                                        [i \in DOMAIN df_ui |-> school_key(df_ui[p[i]])])
    /\ pc' = "sch_deduped"
    /\ UNCHANGED <<ref, wr, df_ui, run, first, notMatch>>

\* Steps 3 and 4 are applied again to what they produced.
SchoolRerun ==
    /\ pc = "sch_deduped" /\ run = 1
    /\ first' = latest
    /\ df_ui' = latest
    /\ latest' = <<>>
    /\ run' = 2
    /\ pc' = "sch_start"
    /\ UNCHANGED <<ref, wr, notMatch>>

\* ------------------------------------------------------------------------
\* load_districts.py: the match by identifier, the fuzzy match by name, the
\* overwrite through the official name and the deduplication.
\* ------------------------------------------------------------------------

DigitChars == {"0", "1", "2", "3", "4", "5", "6", "7", "8", "9"}

\* str.zfill(width)
ZFill(v, width) ==
    IF Len(v) >= width THEN v
    ELSE [i \in 1..width |-> IF i <= width - Len(v) THEN "0" ELSE v[i - (width - Len(v))]]

\* clean_nces: the digits of the value, padded and cut to seven characters;
\* None when the value is missing or has no digit.
clean_nces(val) ==
    IF IsNa(val) THEN None
    ELSE LET digits == Keep(val.v, DigitChars)
         IN  IF digits = <<>> THEN None
             ELSE Str(SubSeq(ZFill(digits, 7), 1, 7))

DistrictRawIds ==
    {NaN, Str(<<"1", "1">>), Str(<<"1", "-", "2">>), Str(<<"x">>), Str(<<"9">>)}
LegacyDistrictNames == {"Q ISD"}
DistrictLevels == {84, 85, 89, 90}

\* norm_name of load_districts: the district suffixes and the punctuation go,
\* case is lowered.
norm_district_name(s) ==
    CASE s = "Q ISD" -> "q"
      [] s = "A"     -> "a"
      [] s = "B"     -> "b"
      [] OTHER       -> s

\* ref: the CCD table, LEAID cleaned; it has no school type.
DistrictRefRow(i, st, n) ==
    [nces |-> clean_nces(Str(RefIdAt(i))), stype |-> "-", state |-> st, name |-> n,
     web |-> "w", setting |-> NA]

DistrictRefTables(n) ==
    {[i \in 1..n |-> DistrictRefRow(i, sts[i], ns[i])] :
        sts \in [1..n -> RefStates], ns \in [1..n -> RefNames]}

\* A row of df_ui before the enrichment: its NCES ID is already cleaned.
DistrictRow(id, raw, n, st, mt) ==
    [rid |-> id, stype |-> "-", lid |-> NaN, oname |-> n, name |-> n,
     nces |-> clean_nces(raw), state |-> st, state_full |-> NA, web |-> "legacy web",
     setting |-> "legacy setting", note |-> "legacy note",
     mtime |-> mt, match_idx |-> 0, tier |-> "-", official |-> NA]

\* cand["LEA_NAME"].apply(norm_name), keyed by the labels of the rows.
DistrictChoices(labels) ==
    [k \in DOMAIN labels |->
        [key |-> labels[k], val |-> norm_district_name(ref[labels[k]].name)]]

\* ref_by_state.get(state_key): the rows of that state, under their labels.
InStateCands(state_key) ==
    Keep([i \in DOMAIN ref |-> i], {i \in DOMAIN ref : ref[i].state = state_key})
AllLabels == [i \in DOMAIN ref |-> i]

\* fuzzy_match_name. The hit carries the label of the row in ref; the
\* in-state branch uses it as a position in cand (iloc), which is another row
\* of cand or an IndexError when cand has fewer rows.
fuzzy_match_name(row) ==
    LET target == norm_district_name(row.oname)
        cand == InStateCands(row.state_full)
        hit1 == extractOne(target, DistrictChoices(cand), 85)
        hit2 == extractOne(target, DistrictChoices(AllLabels), 90)
    IN  IF cand # <<>> /\ hit1 # 0
        THEN IF hit1 > Len(cand)
             THEN [name |-> NA, hit |-> hit1, tier |-> "REGIONAL_FUZZY", raised |-> TRUE]
             ELSE [name |-> ref[cand[hit1]].name, hit |-> hit1,
                   tier |-> "REGIONAL_FUZZY", raised |-> FALSE]
        ELSE IF hit2 # 0
        THEN [name |-> ref[hit2].name, hit |-> hit2, tier |-> "NATIONAL_FUZZY",
              raised |-> FALSE]
        ELSE [name |-> NA, hit |-> 0, tier |-> "NONE", raised |-> FALSE]

\* The first row of ref with a value in a column (drop_duplicates + set_index).
FirstWithId(id) ==
    IF \E i \in DOMAIN ref : ref[i].nces = id
    THEN CHOOSE i \in DOMAIN ref :
             ref[i].nces = id /\ \A j \in 1..(i - 1) : ref[j].nces # id
    ELSE 0
FirstWithName(n) ==
    IF \E i \in DOMAIN ref : ref[i].name = n
    THEN CHOOSE i \in DOMAIN ref :
             ref[i].name = n /\ \A j \in 1..(i - 1) : ref[j].name # n
    ELSE 0

\* Step 3a for one row: the official name by identifier, else by name.
OfficialName(row) ==
    LET keyed == [row EXCEPT !.state_full = Title(row.state)]
        byId == FirstWithId(row.nces)
        f == fuzzy_match_name(keyed)
    IN  IF byId # 0
        THEN [row |-> [keyed EXCEPT !.official = ref[byId].name, !.match_idx = byId,
                                    !.tier = "ID"],
              raised |-> FALSE]
        ELSE [row |-> [keyed EXCEPT !.official = f.name, !.match_idx = f.hit,
                                    !.tier = f.tier],
              raised |-> f.raised]

\* Step 3b for one row: the columns of the first reference row that carries
\* the official name.
DistrictOverwrite(row) ==
    LET r == ref[FirstWithName(row.official)]
    IN  IF row.official = NA THEN row
        ELSE [row EXCEPT !.name = row.official, !.nces = r.nces,
                         !.state = r.state, !.web = r.web]

\* main, step 3. An IndexError of the matcher ends the run.
DistrictEnrich ==
    /\ pc = "dist_start"
    /\ IF \E i \in DOMAIN df_ui : OfficialName(df_ui[i]).raised
       THEN /\ pc' = "dist_crashed"
            /\ UNCHANGED df_ui
       ELSE /\ pc' = "dist_enriched"
            /\ df_ui' = [i \in DOMAIN df_ui |-> DistrictOverwrite(OfficialName(df_ui[i]).row)]
    /\ UNCHANGED <<ref, wr, latest, run, first, notMatch>>

\* str(State).strip().title(); a missing cell prints as "nan".
StrTitle(s) == IF s = NA THEN "Nan" ELSE Title(s)

district_key(r) ==
    LET id == clean_nces(r.nces)
    IN  PyOr(id, CompositeKey(Lower(r.name), StrTitle(r.state)))

\* main, step 4.
DistrictDedup ==
    /\ pc = "dist_enriched"
    /\ \E p \in SortOrders(df_ui) :
           latest' = DropDuplicatesLast(Sorted(df_ui, p),
                                        [i \in DOMAIN df_ui |-> district_key(df_ui[p[i]])])
    /\ pc' = "dist_deduped"
    /\ UNCHANGED <<ref, wr, df_ui, run, first, notMatch>>

NotMatchIdle == ReviewIdle /\ OwnIdle /\ DepIdle /\ LoadIdle

\* One legacy record against every reference table and scorer.
InitSchoolMatch ==
    /\ pc = "sch_start"
    /\ ref \in RefTables(NumRefs)
    /\ wr \in [WrDomain -> SchoolLevels]
    /\ \E t \in SchoolTypes, lid \in LegacyIds, n \in LegacyNames, st \in LegacyStates :
           df_ui = <<SchoolRow("s1", t, lid, n, st, 1)>>
    /\ latest = <<>> /\ run = 1 /\ first = <<>>
    /\ NotMatchIdle

RerunLevels == {89, 92, 95}
RerunIds == {NaN, Str(<<"1">>)}
RerunNameAt(i) == IF i % 2 = 1 THEN "A" ELSE "B"
RerunTables(n) ==
    {[i \in 1..n |-> RefRow(i, ts[i], sts[i], RerunNameAt(i))] :
        ts \in [1..n -> SchoolTypes], sts \in [1..n -> RefStates]}
RerunTimes == {1, 2}
SchoolRid(i) == (<<"s1", "s2", "s3", "s4">>)[i]

\* Several legacy records through the pipeline, twice.
InitRerun ==
    /\ pc = "sch_start"
    /\ ref \in RerunTables(NumRerunRefs)
    /\ wr \in [WrDomain -> RerunLevels]
    /\ \E lids \in [1..NumSchools -> RerunIds], sts \in [1..NumSchools -> LegacyStates],
          mts \in [1..NumSchools -> RerunTimes] :
           df_ui = [i \in 1..NumSchools |->
                     SchoolRow(SchoolRid(i), "Public", lids[i], "Q.", sts[i], mts[i])]
    /\ latest = <<>> /\ run = 1 /\ first = <<>>
    /\ NotMatchIdle

NextRerun == SchoolEnrich \/ SchoolDedup \/ SchoolRerun

SpecRerun == InitRerun /\ [][NextRerun]_vars

\* One legacy district against every reference table and scorer.
InitDistrictMatch ==
    /\ pc = "dist_start"
    /\ ref \in DistrictRefTables(NumRefs)
    /\ wr \in [WrDomain -> DistrictLevels]
    /\ \E raw \in DistrictRawIds, n \in LegacyDistrictNames, st \in LegacyStates :
           df_ui = <<DistrictRow("d1", raw, n, st, 1)>>
    /\ latest = <<>> /\ run = 1 /\ first = <<>>
    /\ NotMatchIdle

InitMatch == InitSchoolMatch \/ InitDistrictMatch

NextMatch == SchoolEnrich \/ DistrictEnrich

SpecMatch == InitMatch /\ [][NextMatch]_vars

NumDedup == 3        \* enriched records handed to the deduplication

DedupTimes == {NaT, 1, 2, 3}
DedupRid(i) == (<<"r1", "r2", "r3", "r4">>)[i]

\* The reference rows the enriched records of the deduplication were matched to.
SchoolDedupRef == <<RefRow(1, "Public", "Texas", "A")>>
DistrictDedupRef == <<DistrictRefRow(1, "Texas", "A")>>

\* What a row of df_ui can be after the enrichment: matched, with the name,
\* id and state of its reference row; or unmatched, with its legacy name and
\* state and with its legacy id or none.
MatchedTo(row, r, j) ==
    [row EXCEPT !.name = r.name, !.nces = r.nces, !.state = r.state,
                !.state_full = r.state, !.web = r.web, !.match_idx = j, !.tier = "ID"]
Unmatched(row, id) ==
    [row EXCEPT !.nces = id, !.state_full = Title(row.state), !.tier = "NONE"]

Shapes(names) ==
    {[m |-> 1, n |-> CHOOSE n \in names : TRUE, st |-> "Texas", id |-> NaN]}
    \cup {[m |-> 0, n |-> n, st |-> "Texas", id |-> NaN] : n \in names}
    \cup {[m |-> 0, n |-> CHOOSE n \in names : TRUE, st |-> "California", id |-> NaN]}
    \cup {[m |-> 0, n |-> CHOOSE n \in names : TRUE, st |-> "Texas", id |-> Str(<<"9">>)]}

EnrichedSchool(rid, c, mt) ==
    LET row == SchoolRow(rid, "Public", c.id, c.n, c.st, mt)
    IN  IF c.m # 0
        THEN [MatchedTo(row, SchoolDedupRef[c.m], c.m)
                 EXCEPT !.setting = SchoolDedupRef[c.m].setting]
        ELSE Unmatched(row, c.id)

EnrichedDistrict(rid, c, mt) ==
    LET row == DistrictRow(rid, c.id, c.n, c.st, mt)
    IN  IF c.m # 0 THEN MatchedTo(row, DistrictDedupRef[c.m], c.m)
        ELSE Unmatched(row, row.nces)

\* The deduplication of either loader on the frames the enrichment can leave.
InitDedup ==
    /\ \/ /\ pc = "sch_enriched"
          /\ ref = SchoolDedupRef
          /\ \E cs \in [1..NumDedup -> Shapes({"Q.", "R."})],
                mts \in [1..NumDedup -> DedupTimes] :
                 df_ui = [i \in 1..NumDedup |-> EnrichedSchool(DedupRid(i), cs[i], mts[i])]
       \/ /\ pc = "dist_enriched"
          /\ ref = DistrictDedupRef
          /\ \E cs \in [1..NumDedup -> Shapes({"Q ISD", "R ISD"})],
                mts \in [1..NumDedup -> DedupTimes] :
                 df_ui = [i \in 1..NumDedup |-> EnrichedDistrict(DedupRid(i), cs[i], mts[i])]
    /\ wr = <<>>
    /\ latest = <<>> /\ run = 1 /\ first = <<>>
    /\ NotMatchIdle

NextDedup == SchoolDedup \/ DistrictDedup

SpecDedup == InitDedup /\ [][NextDedup]_vars

\* ------------------------------------------------------------------------
\* Properties of the tiered matcher.
\* ------------------------------------------------------------------------

SchoolScore(row, j) == WRatio(norm_name(row.oname), norm_name(ref[j].name))
DistrictScore(row, j) ==
    WRatio(norm_district_name(row.oname), norm_district_name(ref[j].name))

\* The reference rows of the record's category whose id contains its legacy id.
IdHits(row) ==
    IF IsNa(row.lid) THEN {}
    ELSE {j \in DOMAIN ref : ref[j].stype = row.stype /\ Contains(ref[j].nces.v, row.lid.v)}
TypeRows(row) == {j \in DOMAIN ref : ref[j].stype = row.stype}
RegionRows(row) == {j \in TypeRows(row) : ref[j].state = row.state_full}
StateRows(row) == {j \in DOMAIN ref : ref[j].state = row.state_full}

\* C5: a school whose legacy id is contained in the id of exactly one
\* reference row of its category is matched to that row by the ID tier and
\* carries that row's name and id, whatever the name scores are.
C5_UniqueIdHitWins ==
    pc = "sch_enriched" =>
        \A i \in DOMAIN df_ui :
            Cardinality(IdHits(df_ui[i])) = 1 =>
                /\ df_ui[i].match_idx \in IdHits(df_ui[i])
                /\ df_ui[i].tier = "ID"
                /\ df_ui[i].nces = ref[df_ui[i].match_idx].nces
                /\ df_ui[i].name = ref[df_ui[i].match_idx].name

\* The unique id hit was returned although another row of the category, in
\* the record's own state, scores higher and would pass the regional cutoff.
C5_Witness ==
    /\ pc = "sch_enriched"
    /\ \E i \in DOMAIN df_ui :
           /\ Cardinality(IdHits(df_ui[i])) = 1
           /\ df_ui[i].match_idx \in IdHits(df_ui[i])
           /\ \E k \in RegionRows(df_ui[i]) :
                  /\ k # df_ui[i].match_idx
                  /\ SchoolScore(df_ui[i], k) >= 95
                  /\ SchoolScore(df_ui[i], k) > SchoolScore(df_ui[i], df_ui[i].match_idx)

\* C7 as stated: in both loaders the regional tier accepts exactly when
\* the best score among the rows of the record's region reaches 90.
C7_AsStated ==
    /\ pc = "sch_enriched" =>
           \A i \in DOMAIN df_ui :
               (TypeRows(df_ui[i]) # {} /\ IdHits(df_ui[i]) = {}) =>
                   (df_ui[i].tier = "REGIONAL_FUZZY"
                        <=> \E j \in RegionRows(df_ui[i]) : SchoolScore(df_ui[i], j) >= 90)
    /\ pc = "dist_enriched" =>
           \A i \in DOMAIN df_ui :
               df_ui[i].tier # "ID" =>
                   (df_ui[i].tier = "REGIONAL_FUZZY"
                        <=> \E j \in StateRows(df_ui[i]) : DistrictScore(df_ui[i], j) >= 90)

\* C7: in the schools loader, a record no id tier matched is matched by the
\* regional tier exactly when some reference row of its state and category
\* scores at least 90, and then to a best-scoring such row; otherwise the
\* nationwide tier decides. In the districts loader the in-state tier has the
\* cutoff 85 and no category: a record without an id match leaves the matcher
\* through the in-state tier exactly when some row of its state scores at
\* least 85, and a run the matcher ends with an error was in that tier.
C7_RegionalCutoffs ==
    /\ pc = "sch_enriched" =>
           \A i \in DOMAIN df_ui :
               (TypeRows(df_ui[i]) # {} /\ IdHits(df_ui[i]) = {}) =>
                   /\ df_ui[i].tier = "REGIONAL_FUZZY"
                          <=> \E j \in RegionRows(df_ui[i]) : SchoolScore(df_ui[i], j) >= 90
                   /\ df_ui[i].tier = "REGIONAL_FUZZY" =>
                          /\ df_ui[i].match_idx \in RegionRows(df_ui[i])
                          /\ \A j \in RegionRows(df_ui[i]) :
                                 SchoolScore(df_ui[i], j) <= SchoolScore(df_ui[i], df_ui[i].match_idx)
                   /\ df_ui[i].tier # "REGIONAL_FUZZY" =>
                          df_ui[i].tier \in {"NATIONAL_FUZZY", "NONE"}
    /\ pc = "dist_enriched" =>
           \A i \in DOMAIN df_ui :
               df_ui[i].tier # "ID" =>
                   /\ df_ui[i].tier = "REGIONAL_FUZZY"
                          <=> \E j \in StateRows(df_ui[i]) : DistrictScore(df_ui[i], j) >= 85
                   /\ df_ui[i].tier # "REGIONAL_FUZZY" =>
                          df_ui[i].tier \in {"NATIONAL_FUZZY", "NONE"}
    /\ pc = "dist_crashed" =>
           \E i \in DOMAIN df_ui :
               /\ FirstWithId(df_ui[i].nces) = 0
               /\ \E j \in DOMAIN ref :
                      /\ ref[j].state = Title(df_ui[i].state)
                      /\ DistrictScore(df_ui[i], j) >= 85

\* A district was matched in its state with a best score below 90.
C7_Witness ==
    /\ pc = "dist_enriched"
    /\ \E i \in DOMAIN df_ui :
           /\ df_ui[i].tier = "REGIONAL_FUZZY"
           /\ \A j \in StateRows(df_ui[i]) : DistrictScore(df_ui[i], j) < 90
           /\ df_ui[i].name # df_ui[i].oname

\* C6 as stated: in both loaders the nationwide tier, reached when the
\* earlier tiers matched nothing, accepts exactly when the best score reaches 95.
C6_AsStated ==
    /\ pc = "sch_enriched" =>
           \A i \in DOMAIN df_ui :
               TypeRows(df_ui[i]) # {} =>
                   (df_ui[i].tier = "NATIONAL_FUZZY"
                        <=> /\ IdHits(df_ui[i]) = {}
                            /\ \A j \in RegionRows(df_ui[i]) : SchoolScore(df_ui[i], j) < 90
                            /\ \E j \in TypeRows(df_ui[i]) : SchoolScore(df_ui[i], j) >= 95)
    /\ pc = "dist_enriched" =>
           \A i \in DOMAIN df_ui :
               df_ui[i].tier \notin {"ID", "REGIONAL_FUZZY"} =>
                   (df_ui[i].tier = "NATIONAL_FUZZY"
                        <=> \E j \in DOMAIN ref : DistrictScore(df_ui[i], j) >= 95)

\* C6: in the schools loader a record is matched by the nationwide tier
\* exactly when the id tier had no hit, no row of its state and category
\* scores 90 or more, and some row of its category scores 95 or more; the
\* match is a best-scoring row of the category, and with a best score below 95
\* the record stays unmatched. In the districts loader the nationwide tier
\* runs over the whole table with the cutoff 90: a record that neither the id
\* nor the in-state tier matched is matched exactly when some row scores at
\* least 90, and it takes the name of a best-scoring row.
C6_NationalCutoffs ==
    /\ pc = "sch_enriched" =>
           \A i \in DOMAIN df_ui :
               TypeRows(df_ui[i]) # {} =>
                   /\ df_ui[i].tier = "NATIONAL_FUZZY"
                          <=> /\ IdHits(df_ui[i]) = {}
                              /\ \A j \in RegionRows(df_ui[i]) : SchoolScore(df_ui[i], j) < 90
                              /\ \E j \in TypeRows(df_ui[i]) : SchoolScore(df_ui[i], j) >= 95
                   /\ df_ui[i].tier = "NATIONAL_FUZZY" =>
                          /\ df_ui[i].match_idx \in TypeRows(df_ui[i])
                          /\ \A j \in TypeRows(df_ui[i]) :
                                 SchoolScore(df_ui[i], j) <= SchoolScore(df_ui[i], df_ui[i].match_idx)
                   /\ df_ui[i].tier = "NONE" =>
                          /\ df_ui[i].match_idx = 0
                          /\ \A j \in TypeRows(df_ui[i]) : SchoolScore(df_ui[i], j) < 95
    /\ pc = "dist_enriched" =>
           \A i \in DOMAIN df_ui :
               df_ui[i].tier \notin {"ID", "REGIONAL_FUZZY"} =>
                   /\ df_ui[i].tier = "NATIONAL_FUZZY"
                          <=> \E j \in DOMAIN ref : DistrictScore(df_ui[i], j) >= 90
                   /\ df_ui[i].tier = "NATIONAL_FUZZY" =>
                          /\ \A j \in StateRows(df_ui[i]) : DistrictScore(df_ui[i], j) < 85
                          /\ \A j \in DOMAIN ref :
                                 DistrictScore(df_ui[i], j) <= DistrictScore(df_ui[i], df_ui[i].match_idx)
                          /\ df_ui[i].name = ref[df_ui[i].match_idx].name
                   /\ df_ui[i].tier = "NONE" =>
                          /\ df_ui[i].name = df_ui[i].oname
                          /\ \A j \in DOMAIN ref : DistrictScore(df_ui[i], j) < 90

\* A district was matched nationwide with a best score below 95.
C6_Witness ==
    /\ pc = "dist_enriched"
    /\ \E i \in DOMAIN df_ui :
           /\ df_ui[i].tier = "NATIONAL_FUZZY"
           /\ \A j \in DOMAIN ref : DistrictScore(df_ui[i], j) < 95
           /\ df_ui[i].name = ref[df_ui[i].match_idx].name

\* ------------------------------------------------------------------------
\* Properties of the deduplication and of the second pass.
\* ------------------------------------------------------------------------

Deduped == pc \in {"sch_deduped", "dist_deduped"}
KeyOfRow(r) == IF pc = "sch_deduped" THEN school_key(r) ELSE district_key(r)
LacksId(r) == r.nces.k # "str" \/ r.nces.v = <<>>
Kept(r) == r \in Range(latest)

\* C8 as stated: of any two records with the same key and times T1 < T2 the
\* later is in the output and the earlier is not; of a record without a time
\* and one with a time, the one with a time is in the output.
C8_AsStated ==
    Deduped =>
        \A i, j \in DOMAIN df_ui :
            (i # j /\ KeyOfRow(df_ui[i]) = KeyOfRow(df_ui[j])) =>
                /\ (df_ui[i].mtime # NaT /\ df_ui[i].mtime < df_ui[j].mtime) =>
                       (Kept(df_ui[j]) /\ ~Kept(df_ui[i]))
                /\ (df_ui[i].mtime = NaT /\ df_ui[j].mtime # NaT) => Kept(df_ui[j])

\* C8: the output holds exactly one record of every key, one whose time is
\* the greatest of its key, a missing time being below every time. So of two
\* records with the same key, the one with the smaller or the missing time
\* is never in the output, and the other one is in the output when no third
\* record of the key is as recent as it.
C8_LatestPerKey ==
    Deduped =>
        /\ \A k \in DOMAIN latest : latest[k] \in Range(df_ui)
        /\ \A i \in DOMAIN df_ui :
               /\ Cardinality({k \in DOMAIN latest :
                                   KeyOfRow(latest[k]) = KeyOfRow(df_ui[i])}) = 1
               /\ \A k \in DOMAIN latest :
                      KeyOfRow(latest[k]) = KeyOfRow(df_ui[i]) =>
                          latest[k].mtime >= df_ui[i].mtime
        /\ \A i, j \in DOMAIN df_ui :
               (i # j /\ KeyOfRow(df_ui[i]) = KeyOfRow(df_ui[j])
                      /\ df_ui[i].mtime < df_ui[j].mtime) =>
                   /\ ~Kept(df_ui[i])
                   /\ (\A h \in DOMAIN df_ui :
                           (h # j /\ KeyOfRow(df_ui[h]) = KeyOfRow(df_ui[j])) =>
                               df_ui[h].mtime < df_ui[j].mtime) => Kept(df_ui[j])

\* Three records of one key, without a time, with time 1 and with time 2:
\* only the last is kept.
C8_Witness ==
    /\ Deduped
    /\ \E i, j, h \in DOMAIN df_ui :
           /\ KeyOfRow(df_ui[i]) = KeyOfRow(df_ui[j])
           /\ KeyOfRow(df_ui[h]) = KeyOfRow(df_ui[j])
           /\ df_ui[h].mtime = NaT
           /\ df_ui[i].mtime # NaT
           /\ df_ui[i].mtime < df_ui[j].mtime
           /\ Kept(df_ui[j]) /\ ~Kept(df_ui[i]) /\ ~Kept(df_ui[h])

\* C9 as stated: the key of a record is its id when it has one and the
\* composite of its name and state otherwise, so that two records without an
\* id that differ in name or state have different keys and each of them leaves
\* a record of its own name and state in the output.
C9_AsStated ==
    Deduped =>
        /\ \A i \in DOMAIN df_ui :
               KeyOfRow(df_ui[i]) =
                   (IF LacksId(df_ui[i])
                    THEN CompositeKey(Lower(df_ui[i].name),
                                      IF pc = "sch_deduped" THEN Upper(df_ui[i].state)
                                      ELSE StrTitle(df_ui[i].state))
                    ELSE IdKey(IF pc = "sch_deduped" THEN df_ui[i].nces.v
                               ELSE clean_nces(df_ui[i].nces).v))
        /\ \A i, j \in DOMAIN df_ui :
               (/\ LacksId(df_ui[i]) /\ LacksId(df_ui[j])
                /\ (df_ui[i].name # df_ui[j].name \/ df_ui[i].state # df_ui[j].state)) =>
                   /\ KeyOfRow(df_ui[i]) # KeyOfRow(df_ui[j])
                   /\ \E k \in DOMAIN latest :
                          /\ LacksId(latest[k])
                          /\ latest[k].name = df_ui[i].name
                          /\ latest[k].state = df_ui[i].state

\* The columns of the output; STATE_FULL and the tier are working columns.
Output(frame) == {[r EXCEPT !.state_full = NA, !.tier = "-"] : r \in Range(frame)}

\* C10: the second pass of the matcher and the deduplication over the
\* output of the first leaves the same set of records with the same values.
C10_SecondPassChangesNothing ==
    (pc = "sch_deduped" /\ run = 2) => Output(latest) = Output(first)

\* A record matched nationwide to a row of another state in the first pass
\* is matched to the same row by the regional tier in the second.
C10_Witness ==
    /\ pc = "sch_deduped" /\ run = 2
    /\ \E a \in Range(first), b \in Range(latest) :
           /\ a.rid = b.rid
           /\ a.tier = "NATIONAL_FUZZY"
           /\ b.tier = "REGIONAL_FUZZY"
           /\ a.match_idx = b.match_idx
    /\ Len(first) < NumSchools

\* The columns a record is supplied with: the row without the helper columns
\* the enrichment adds (STATE_FULL, match_idx and Official Name).
Supplied(row) ==
    [row EXCEPT !.state_full = NA, !.match_idx = 0, !.tier = "-", !.official = NA]

SchoolEnrichStep == pc = "sch_start" /\ pc' = "sch_enriched"
DistrictEnrichStep == pc = "dist_start" /\ pc' = "dist_enriched"

C16_Step ==
    (SchoolEnrichStep \/ DistrictEnrichStep) =>
        \A i \in DOMAIN df_ui :
            df_ui'[i].tier = "NONE" => Supplied(df_ui'[i]) = Supplied(df_ui[i])

\* C16: the enrichment of either loader leaves every supplied column of a
\* record that no tier matched as it was: the row after the step equals the
\* row before it in every column but the helper columns the step adds.
C16_UnmatchedUntouched == [][C16_Step]_vars

\* An unmatched school that came with a legacy id and a legacy website, in a
\* run whose reference has rows of its category in its state, still carries
\* its legacy name, website, setting and note.
C16_Witness ==
    /\ pc = "sch_enriched"
    /\ \E i \in DOMAIN df_ui :
           /\ df_ui[i].tier = "NONE"
           /\ ~IsNa(df_ui[i].lid)
           /\ RegionRows(df_ui[i]) # {}
           /\ df_ui[i].name = df_ui[i].oname /\ df_ui[i].name # NA
           /\ df_ui[i].web = "legacy web"
           /\ df_ui[i].setting = "legacy setting"
           /\ df_ui[i].note = "legacy note"

\* The columns the claim lists (name, address block, phone, website, type,
\* parent key) and their complement, in the columns of the model: state stands
\* for the address block, web for phone, website and type, setting for the
\* parent key of a school.
OutsideListedSet(row) == [rid |-> row.rid, stype |-> row.stype, lid |-> row.lid,
                          oname |-> row.oname, nces |-> row.nces, note |-> row.note,
                          mtime |-> row.mtime]

\* The columns outside cols_to_enrich (schools) and outside the tuple of step
\* 3b (districts).
OutsideSchoolCols(row) == [rid |-> row.rid, stype |-> row.stype, lid |-> row.lid,
                           oname |-> row.oname, note |-> row.note, mtime |-> row.mtime]
OutsideDistrictCols(row) == [rid |-> row.rid, stype |-> row.stype, lid |-> row.lid,
                             oname |-> row.oname, note |-> row.note,
                             setting |-> row.setting, mtime |-> row.mtime]

\* C17 as stated, its frame: a matched record changes in the listed columns
\* only, so its NCES ID and every column the model does not list stay.
C17_StepAsStated ==
    (SchoolEnrichStep \/ DistrictEnrichStep) =>
        \A i \in DOMAIN df_ui :
            df_ui'[i].tier \notin {"NONE", "-"} =>
                OutsideListedSet(df_ui'[i]) = OutsideListedSet(df_ui[i])
C17_AsStated == [][C17_StepAsStated]_vars

C17_Step ==
    /\ SchoolEnrichStep =>
           \A i \in DOMAIN df_ui :
               LET row == df_ui'[i]
                   r == ref[row.match_idx]
               IN  row.match_idx # 0 =>
                       /\ OutsideSchoolCols(row) = OutsideSchoolCols(df_ui[i])
                       /\ row.name = r.name /\ row.nces = r.nces
                       /\ row.state = r.state /\ row.web = r.web
                       /\ row.setting = r.setting
    /\ DistrictEnrichStep =>
           \A i \in DOMAIN df_ui :
               LET row == df_ui'[i]
                   r == ref[FirstWithName(row.official)]
               IN  row.official # NA =>
                       /\ OutsideDistrictCols(row) = OutsideDistrictCols(df_ui[i])
                       /\ row.name = row.official /\ row.nces = r.nces
                       /\ row.state = r.state /\ row.web = r.web

\* C17: a matched school changes in the columns of cols_to_enrich only, which
\* are the listed ones and the NCES ID, setting, size and grades, and takes
\* them from its matched reference row; a matched district changes in the
\* name, the NCES ID, the address, phone, website and type only, and takes them
\* from the first reference row that carries its official name. Every other
\* supplied column is unchanged.
C17_EnrichedColumnsOnly == [][C17_Step]_vars

\* A school matched by name only: its NCES ID, missing before, is now the id
\* of the reference row, and its note is still the legacy one.
C17_Witness ==
    /\ pc = "sch_enriched"
    /\ \E i \in DOMAIN df_ui :
           /\ df_ui[i].tier \in {"REGIONAL_FUZZY", "NATIONAL_FUZZY"}
           /\ df_ui[i].nces = ref[df_ui[i].match_idx].nces
           /\ df_ui[i].setting = "ref setting"
           /\ df_ui[i].name # df_ui[i].oname
           /\ df_ui[i].note = "legacy note"

\* C18: a school whose legacy id is contained in the id of two or more
\* reference rows of its category is matched by the ID tier to one of those
\* rows, one whose name scores highest among them, however low that score is;
\* a school with no such row is never matched by the ID tier.
C18_MultiHitBestName ==
    pc = "sch_enriched" =>
        \A i \in DOMAIN df_ui :
            LET row == df_ui[i]
                hits == IdHits(row)
            IN  /\ Cardinality(hits) >= 2 =>
                       /\ row.tier = "ID"
                       /\ row.match_idx \in hits
                       /\ \A j \in hits :
                              SchoolScore(row, j) <= SchoolScore(row, row.match_idx)
                /\ hits = {} => row.tier # "ID"

\* Two id hits whose best name score is below both cutoffs, and a third row
\* of the category in the record's state that scores 95: the hit is returned.
C18_Witness ==
    /\ pc = "sch_enriched"
    /\ \E i \in DOMAIN df_ui :
           LET row == df_ui[i]
           IN  /\ Cardinality(IdHits(row)) >= 2
               /\ row.tier = "ID"
               /\ SchoolScore(row, row.match_idx) < 90
               /\ \E j \in RegionRows(row) \ IdHits(row) : SchoolScore(row, j) >= 95

\* =========================================================================
\*  etl_lib.py, load_schoolstarAssociations.py and load_courseEnrollments.py:
\*  the whole run of a loader that depends on optional files of cache/
\* =========================================================================

NumLoad == 2         \* rows of the legacy extract given to such a loader

SSA == "School-Star Associations"
MODULE_UI == "Course Enrollments"
LEGACY_MODULE == "Stem Course Progress"
LEGACY_PRODUCT_ID_COL == "STEM Course.id"
LEGACY_PRODUCT_NAME_COL == "STEM Course"
ENRICH_MODULE_UI == "Enrichment Enrollments"
ENRICH_LEGACY_MODULE == "Stem Enrichments Progress"

\* str.lower() on the Target Module values of the model.
LowerModule(m) ==
    CASE m = SSA           -> "school-star associations"
      [] m = MODULE_UI     -> "course enrollments"
      [] m = ENRICH_MODULE_UI -> "enrichment enrollments"
      [] m = "Remove"      -> "remove"
      [] m = "remove/hide" -> "remove/hide"

\* A validation that finds nothing missing.
assert_nothing(module_mapping, target_cat) == {}

\* assert_target_pairs_exist: the set `missing`; the function raises
\* ValueError when it is not empty.
assert_target_pairs_exist(module_mapping, target_cat) ==
    LET valid_pairs == target_cat
        mapping_pairs == {<<r.tmodule, r.tfield>> : r \in module_mapping}
    IN  {p \in mapping_pairs \ valid_pairs :
             LowerModule(p[1]) \notin {"remove", "remove/hide"}}

\* transform_legacy_df on one row: the legacy columns the mapping keeps, under
\* their target names. A row is a function from column names to cells.
transform_legacy_df(row, module_mapping) ==
    LET keep == {r \in module_mapping :
                     LowerModule(r.tmodule) \notin {"remove", "remove/hide"}}
        cols_to_rename == {r \in keep : r.legacy \in DOMAIN row}
    IN  [c \in {r.tfield : r \in cols_to_rename} |->
             row[(CHOOSE r \in cols_to_rename : r.tfield = c).legacy]]

\* The final column order: the catalog's columns of the module, a column the
\* frame lacks filled with NA, a column the catalog lacks dropped.
UiCols(module) == {p[2] : p \in {q \in catalog : q[1] = module}}
Align(row, module) ==
    [c \in UiCols(module) |-> IF c \in DOMAIN row THEN row[c] ELSE NA]

MapRow(lm, l, tm, tf) == [lmodule |-> lm, legacy |-> l, tmodule |-> tm, tfield |-> tf]
Logged(level, about, n) == [level |-> level, about |-> about, n |-> n]

\* ------------------------------------------- load_schoolstarAssociations.py

\* Mapping rows a mapping file may hold for the associations: the two match
\* keys, a column marked for removal and a column the catalog may lack.
AssocMapRows ==
    {MapRow("Associations", "Star", SSA, "Star (Match Key)"),
     MapRow("Associations", "Schools", SSA, "School (Match Key)"),
     MapRow("Associations", "Owner", "Remove", "Owner"),
     MapRow("Associations", "Role", SSA, "Role")}
AssocCatalogs ==
    {{<<SSA, "Star (Match Key)">>, <<SSA, "School (Match Key)">>} \cup x :
         x \in SUBSET {<<SSA, "Role">>}}

AssocRow(star_id, school_id, star, school) ==
    ("Star.id" :> star_id) @@ ("Schools.id" :> school_id) @@ ("Star" :> star)
    @@ ("Schools" :> school) @@ ("Owner" :> "owner") @@ ("Role" :> "role")
AssocRows ==
    {AssocRow("t1", sc, st, sn) : sc \in {"s1", "s2"}, st \in {"ann", NA},
                                  sn \in {"oak"}}

\* What each optional file of the associations loader may be.
DistrictLookups == {NoFile, File(<<>>), File(<<"s2">>)}
StarLookups == {NoFile, File(<<>>), File(<<[rid |-> "t1", name |-> "Ann Lee"]>>)}
SchoolLookups == {NoFile, File(<<[rid |-> "s1", name |-> "Oak School"]>>)}

\* Series.map(lookup[col]).fillna(other), the lookup indexed by Record Id.
LookupName(id, rows, other) ==
    IF \E i \in DOMAIN rows : rows[i].rid = id /\ rows[i].name # NA
    THEN (CHOOSE r \in Range(rows) : r.rid = id).name
    ELSE other

InitAssoc ==
    /\ pc = "ssa_start"
    /\ mapping \in SUBSET AssocMapRows
    /\ catalog \in AssocCatalogs
    /\ df_raw \in [1..NumLoad -> AssocRows]
    /\ \E d \in DistrictLookups, st \in StarLookups, sc \in SchoolLookups :
           lookups = [district |-> d, star |-> st, school |-> sc, decisions |-> NoFile,
                      legacy |-> File(df_raw)]
    /\ remaps = <<>> /\ df_out = <<>> /\ output = NoFile /\ log = {}
    /\ ReviewIdle /\ OwnIdle /\ DepIdle /\ MatchIdle /\ today = 0 /\ runs = <<>>

\* main, steps 1 and 1a: the rows whose Schools.id is a staged district are
\* dropped when the district lookup is there.
AssocExclude ==
    /\ pc = "ssa_start"
    /\ IF lookups.district.exists
       THEN LET district_ids == Range(lookups.district.rows)
                kept == Keep(df_raw, {r \in Range(df_raw) :
                                          r["Schools.id"] \notin district_ids})
            IN  /\ df_raw' = kept
                /\ log' = log \cup {Logged("INFO", "district rows removed",
                                           Len(df_raw) - Len(kept))}
       ELSE /\ df_raw' = df_raw
            /\ log' = log \cup {Logged("WARNING", "district lookup", 0)}
    /\ pc' = "ssa_filtered"
    /\ UNCHANGED <<mapping, catalog, lookups, remaps, df_out, output, notLoad>>

AssocMapping == {r \in mapping : r.tmodule = SSA}

\* main, step 2 up to the validation: a mismatch ends the run.
AssocValidate ==
    /\ pc = "ssa_filtered"
    /\ pc' = IF assert_target_pairs_exist(AssocMapping, catalog) # {}
             THEN "ssa_raised" ELSE "ssa_validated"
    /\ UNCHANGED <<loadVars, notLoad>>

\* main, line 87 and step 3 for one row: the match keys are replaced by the
\* names of the lookups where the lookup file and the key column are there.
AssocEnrichRow(row) ==
    LET ui == transform_legacy_df(row, AssocMapping)
        star == IF lookups.star.exists /\ "Star (Match Key)" \in DOMAIN ui
                THEN [ui EXCEPT !["Star (Match Key)"] =
                          LookupName(row["Star.id"], lookups.star.rows, @)]
                ELSE ui
    IN  IF lookups.school.exists /\ "School (Match Key)" \in DOMAIN star
        THEN [star EXCEPT !["School (Match Key)"] =
                  LookupName(row["Schools.id"], lookups.school.rows, @)]
        ELSE star

\* What step 3 logs: a warning when a file is there and the key column is
\* not, an information when the file is missing.
AssocEnrichLog ==
    LET cols == {r.tfield : r \in AssocMapping}
    IN  (IF lookups.star.exists
         THEN IF "Star (Match Key)" \in cols THEN {}
              ELSE {Logged("WARNING", "star lookup column", 0)}
         ELSE {Logged("INFO", "star lookup", 0)})
        \cup
        (IF lookups.school.exists
         THEN IF "School (Match Key)" \in cols THEN {}
              ELSE {Logged("WARNING", "school lookup column", 0)}
         ELSE {Logged("INFO", "school lookup", 0)})

AssocEnrich ==
    /\ pc = "ssa_validated"
    /\ df_out' = [i \in DOMAIN df_raw |-> AssocEnrichRow(df_raw[i])]
    /\ log' = log \cup AssocEnrichLog
    /\ pc' = "ssa_enriched"
    /\ UNCHANGED <<mapping, catalog, lookups, df_raw, remaps, output, notLoad>>

\* main, steps 4 and 5.
AssocWrite ==
    /\ pc = "ssa_enriched"
    /\ output' = File([i \in DOMAIN df_out |-> Align(df_out[i], SSA)])
    /\ pc' = "ssa_done"
    /\ UNCHANGED <<mapping, catalog, lookups, df_raw, remaps, df_out, log, notLoad>>

NextAssoc == AssocExclude \/ AssocValidate \/ AssocEnrich \/ AssocWrite

\* --------------------------------------------- load_courseEnrollments.main

CourseMapRows ==
    {MapRow(LEGACY_MODULE, LEGACY_PRODUCT_ID_COL, MODULE_UI, "Product ID"),
     MapRow(LEGACY_MODULE, LEGACY_PRODUCT_NAME_COL, MODULE_UI, "Product"),
     MapRow(LEGACY_MODULE, "Accounts", "remove/hide", "Accounts"),
     MapRow(LEGACY_MODULE, "Stage", MODULE_UI, "Stage")}
CourseCatalogs ==
    {{<<MODULE_UI, "Product ID">>, <<MODULE_UI, "Product">>} \cup x :
         x \in SUBSET {<<MODULE_UI, "Stage">>}}

CourseRow(account, id, name) ==
    ("Accounts" :> account) @@ (LEGACY_PRODUCT_ID_COL :> id)
    @@ (LEGACY_PRODUCT_NAME_COL :> name) @@ ("Stage" :> "stage")
CourseRows ==
    {CourseRow(a, id, n) : a \in {"Acme", "Test Co", NA}, id \in {"p1", "p2"},
                           n \in {"X"}}

\* astype(str).str.contains("test", case=False, na=False) on the accounts of
\* the model.
ContainsTest(account) == account = "Test Co"

DecisionFiles ==
    {NoFile, File(<<>>)}
    \cup {File(<<[canonical_record_id |-> "p1", canonical_name |-> "A",
                  duplicate_record_id |-> "p2", duplicate_name |-> "A",
                  user_decision |-> d]>>) : d \in {"MERGE", "KEEP"}}

InitCourse ==
    /\ pc = "ce_start"
    /\ mapping \in SUBSET CourseMapRows
    /\ catalog \in CourseCatalogs
    /\ df_raw \in [1..NumLoad -> CourseRows]
    /\ \E d \in DecisionFiles :
           lookups = [district |-> NoFile, star |-> NoFile, school |-> NoFile,
                      decisions |-> d, legacy |-> File(df_raw)]
    /\ remaps = <<>> /\ df_out = <<>> /\ output = NoFile /\ log = {}
    /\ ReviewIdle /\ OwnIdle /\ DepIdle /\ MatchIdle /\ today = 0 /\ runs = <<>>

\* main, step 1: the decisions are loaded (both tables empty and a warning
\* when the file is missing) and the rows of test accounts are dropped.
CourseLoad ==
    /\ pc = "ce_start" /\ lookups.legacy.exists
    /\ IF lookups.decisions.exists
       THEN /\ remaps' = [id_remap |-> BuildIdRemap(lookups.decisions.rows),
                          id_to_name |-> BuildIdToName(lookups.decisions.rows)]
            /\ log' = log \cup {Logged("INFO", "product remaps loaded",
                                       Cardinality(DOMAIN BuildIdRemap(lookups.decisions.rows)))}
       ELSE /\ remaps' = [id_remap |-> <<>>, id_to_name |-> <<>>]
            /\ log' = log \cup {Logged("WARNING", "product decisions", 0)}
    /\ df_raw' = Keep(df_raw, {r \in Range(df_raw) : ~ContainsTest(r["Accounts"])})
    /\ pc' = "ce_loaded"
    /\ UNCHANGED <<mapping, catalog, lookups, df_out, output, notLoad>>

CourseMapping == {r \in mapping : r.lmodule = LEGACY_MODULE /\ r.tmodule = MODULE_UI}

\* main, step 2.
CourseValidate ==
    /\ pc = "ce_loaded"
    /\ pc' = IF assert_target_pairs_exist(CourseMapping, catalog) # {}
             THEN "ce_raised" ELSE "ce_validated"
    /\ UNCHANGED <<loadVars, notLoad>>

\* main, step 3 for one row.
CanonicalizeRow(row) ==
    LET c == Canonicalize([fk |-> row[LEGACY_PRODUCT_ID_COL],
                           name |-> row[LEGACY_PRODUCT_NAME_COL]],
                          remaps.id_remap, remaps.id_to_name)
    IN  [row EXCEPT ![LEGACY_PRODUCT_ID_COL] = c.fk, ![LEGACY_PRODUCT_NAME_COL] = c.name]

CourseCanonicalize ==
    /\ pc = "ce_validated"
    /\ df_raw' = [i \in DOMAIN df_raw |-> CanonicalizeRow(df_raw[i])]
    /\ pc' = "ce_canonical"
    /\ UNCHANGED <<mapping, catalog, lookups, remaps, df_out, output, log, notLoad>>

\* main, steps 4 to 6; the rows of the model have no grade or date columns.
CourseWrite ==
    /\ pc = "ce_canonical"
    /\ df_out' = [i \in DOMAIN df_raw |-> transform_legacy_df(df_raw[i], CourseMapping)]
    /\ output' = File([i \in DOMAIN df_raw |->
                           Align(transform_legacy_df(df_raw[i], CourseMapping), MODULE_UI)])
    /\ pc' = "ce_done"
    /\ UNCHANGED <<mapping, catalog, lookups, df_raw, remaps, log, notLoad>>

NextCourse == CourseLoad \/ CourseValidate \/ CourseCanonicalize \/ CourseWrite

InitLoaders == InitAssoc \/ InitCourse
NextLoaders == NextAssoc \/ NextCourse
SpecLoaders == InitLoaders /\ [][NextLoaders]_vars

\* ------------------------------------------------------- claims: the loaders

\* The pairs the mapping names that the catalog lacks, removals aside.
Uncatalogued ==
    {<<r.tmodule, r.tfield>> :
         r \in {q \in mapping : q.tmodule \notin {"Remove", "remove/hide"}}} \ catalog

Warned(about) == \E e \in log : e.level = "WARNING" /\ e.about = about

Absent(file) == lookups # <<>> /\ ~lookups[file].exists

\* The star or school key of a staged row is the legacy display name.
KeepsLegacy(i, key, column) ==
    key \in DOMAIN df_out[i] => df_out[i][key] = df_raw[i][column]

C19_State ==
    /\ pc \in {"ce_raised", "ssa_raised"} => Uncatalogued # {}
    /\ (Absent("decisions") /\ pc \in {"ce_loaded", "ce_validated", "ce_canonical", "ce_done"})
           => /\ remaps = [id_remap |-> <<>>, id_to_name |-> <<>>]
              /\ Warned("product decisions")
    /\ (Absent("district") /\ pc \in {"ssa_filtered", "ssa_validated", "ssa_enriched", "ssa_done"})
           => Warned("district lookup")
    /\ (Absent("star") /\ pc \in {"ssa_enriched", "ssa_done"})
           => /\ Warned("star lookup")
              /\ \A i \in DOMAIN df_out : KeepsLegacy(i, "Star (Match Key)", "Star")
    /\ (Absent("school") /\ pc \in {"ssa_enriched", "ssa_done"})
           => /\ Warned("school lookup")
              /\ \A i \in DOMAIN df_out : KeepsLegacy(i, "School (Match Key)", "Schools")
    /\ pc = "ssa_done" => output = File([i \in DOMAIN df_out |-> Align(df_out[i], SSA)])
    /\ pc = "ce_done" =>
           output = File([i \in DOMAIN df_raw |->
                              Align(transform_legacy_df(df_raw[i], CourseMapping), MODULE_UI)])

C19_Step ==
    /\ (pc = "ce_validated" /\ Absent("decisions")) => df_raw' = df_raw
    /\ (pc = "ssa_start" /\ Absent("district")) => df_raw' = df_raw
    /\ (pc \in {"ce_canonical", "ssa_enriched"}) => output'.exists

\* C19 as stated: in the associations and the course enrollments loader a
\* missing optional file never ends the run; the remap tables are empty, the
\* step that would use the file leaves the keys and names as they were, a
\* warning names the file, and the output is written from those rows.
C19_AsStated == []C19_State /\ [][C19_Step]_vars

BeforeValidation == {"ssa_start", "ssa_filtered", "ce_start", "ce_loaded"}
Raised == {"ssa_raised", "ce_raised"}

C20_State ==
    /\ Uncatalogued # {} =>
           /\ pc \in BeforeValidation \cup Raised
           /\ df_out = <<>> /\ output = NoFile
    /\ pc \in Raised => Uncatalogued # {}

C20_Raises ==
    (Uncatalogued # {} /\ pc \in {"ssa_filtered", "ce_loaded"}) => pc' \in Raised

InitCourseNoInput ==
    /\ pc = "ce_start"
    /\ mapping \in SUBSET CourseMapRows
    /\ catalog \in CourseCatalogs
    /\ df_raw = <<>>
    /\ \E d \in DecisionFiles :
           lookups = [district |-> NoFile, star |-> NoFile, school |-> NoFile,
                      decisions |-> d, legacy |-> NoFile]
    /\ remaps = <<>> /\ df_out = <<>> /\ output = NoFile /\ log = {}
    /\ ReviewIdle /\ OwnIdle /\ DepIdle /\ MatchIdle /\ today = 0 /\ runs = <<>>

\* load_courseEnrollments._read_csv(LEGACY_FILE) raises FileNotFoundError,
\* which main does not catch.
CourseNoInput ==
    /\ pc = "ce_start" /\ ~lookups.legacy.exists
    /\ pc' = "ce_no_input"
    /\ UNCHANGED <<loadVars, notLoad>>

\* ------------------------------------------ load_enrichmentEnrollments.main

EnrichMapRows ==
    {MapRow(ENRICH_LEGACY_MODULE, "Enrichment.id", ENRICH_MODULE_UI, "Product ID"),
     MapRow(ENRICH_LEGACY_MODULE, "Enrichment", ENRICH_MODULE_UI, "Product"),
     MapRow(ENRICH_LEGACY_MODULE, "Stage", ENRICH_MODULE_UI, "Stage")}
EnrichCatalogs ==
    {{<<ENRICH_MODULE_UI, "Product ID">>, <<ENRICH_MODULE_UI, "Product">>} \cup x :
         x \in SUBSET {<<ENRICH_MODULE_UI, "Stage">>}}

EnrichRow(id, name) ==
    ("Enrichment.id" :> id) @@ ("Enrichment" :> name) @@ ("Stage" :> "stage")
EnrichRows == {EnrichRow(id, n) : id \in {"p1", "p2"}, n \in {"X", NA}}

\* The legacy extract: missing, without rows, or with rows.
EnrichLegacyFiles ==
    {NoFile, File(<<>>)} \cup {File(rows) : rows \in [1..NumLoad -> EnrichRows]}

InitEnrichment ==
    /\ pc = "ee_start"
    /\ mapping \in SUBSET EnrichMapRows
    /\ catalog \in EnrichCatalogs
    /\ \E d \in DecisionFiles, l \in EnrichLegacyFiles :
           lookups = [district |-> NoFile, star |-> NoFile, school |-> NoFile,
                      decisions |-> d, legacy |-> l]
    /\ df_raw = <<>>
    /\ remaps = <<>> /\ df_out = <<>> /\ output = NoFile /\ log = {}
    /\ ReviewIdle /\ OwnIdle /\ DepIdle /\ MatchIdle /\ today = 0 /\ runs = <<>>

\* _read_csv: a missing file is an empty frame and a warning.
EnrichReadLog(file, about) ==
    IF file.exists THEN {} ELSE {Logged("WARNING", about, 0)}

\* main, step 1: with an empty df_raw main logs a warning and returns; else
\* the decisions are loaded, a missing or empty file giving two empty tables.
EnrichmentLoad ==
    /\ pc = "ee_start"
    /\ df_raw' = lookups.legacy.rows
    /\ IF lookups.legacy.rows = <<>>
       THEN /\ log' = log \cup EnrichReadLog(lookups.legacy, "file not found")
                          \cup {Logged("WARNING", "source file missing or empty", 0)}
            /\ remaps' = remaps
            /\ pc' = "ee_returned"
       ELSE /\ IF lookups.decisions.rows # <<>>
               THEN /\ remaps' = [id_remap |-> BuildIdRemap(lookups.decisions.rows),
                                  id_to_name |-> BuildIdToName(lookups.decisions.rows)]
                    /\ log' = log \cup {Logged("INFO", "product remaps loaded",
                                  Cardinality(DOMAIN BuildIdRemap(lookups.decisions.rows)))}
               ELSE /\ remaps' = [id_remap |-> <<>>, id_to_name |-> <<>>]
                    /\ log' = log \cup EnrichReadLog(lookups.decisions, "file not found")
                                  \cup {Logged("WARNING", "product decisions", 0)}
            /\ pc' = "ee_loaded"
    /\ UNCHANGED <<mapping, catalog, lookups, df_out, output, notLoad>>

EnrichMapping ==
    {r \in mapping : r.lmodule = ENRICH_LEGACY_MODULE /\ r.tmodule = ENRICH_MODULE_UI}

\* main, step 2: without a mapping row main logs an error and returns; a
\* mismatch with the catalog raises.
EnrichmentValidate ==
    /\ pc = "ee_loaded"
    /\ IF EnrichMapping = {}
       THEN /\ log' = log \cup {Logged("ERROR", "mapping failed", 0)}
            /\ pc' = "ee_returned"
       ELSE /\ log' = log
            /\ pc' = IF assert_target_pairs_exist(EnrichMapping, catalog) # {}
                     THEN "ee_raised" ELSE "ee_validated"
    /\ UNCHANGED <<mapping, catalog, lookups, df_raw, remaps, df_out, output, notLoad>>

\* main, step 3 for one row.
EnrichCanonicalizeRow(row) ==
    LET c == Canonicalize([fk |-> row["Enrichment.id"], name |-> row["Enrichment"]],
                          remaps.id_remap, remaps.id_to_name)
    IN  [row EXCEPT !["Enrichment.id"] = c.fk, !["Enrichment"] = c.name]

\* main, steps 3 to 7; the rows of the model have no date columns.
EnrichmentWrite ==
    /\ pc = "ee_validated"
    /\ df_raw' = [i \in DOMAIN df_raw |-> EnrichCanonicalizeRow(df_raw[i])]
    /\ df_out' = [i \in DOMAIN df_raw |->
                      transform_legacy_df(EnrichCanonicalizeRow(df_raw[i]), EnrichMapping)]
    /\ output' = File([i \in DOMAIN df_raw |->
                           Align(transform_legacy_df(EnrichCanonicalizeRow(df_raw[i]),
                                                     EnrichMapping), ENRICH_MODULE_UI)])
    /\ pc' = "ee_done"
    /\ UNCHANGED <<mapping, catalog, lookups, remaps, log, notLoad>>

NextEnrichment == EnrichmentLoad \/ EnrichmentValidate \/ EnrichmentWrite

\* The enrollment loaders, the legacy file there or not.
InitInput == InitCourse \/ InitCourseNoInput \/ InitEnrichment
NextInput == NextCourse \/ CourseNoInput \/ NextEnrichment
SpecInput == InitInput /\ [][NextInput]_vars

\* ------------------------------------------------ claims: the legacy file

\* C21 as stated: a run whose legacy file is missing ends with the error of
\* the read, and no run returns normally without having written its output.
C21_AsStated ==
    /\ (~lookups.legacy.exists /\ pc \notin {"ce_start", "ee_start"}) => pc = "ce_no_input"
    /\ pc = "ee_returned" => output.exists

\* ------------------------------------ load_courseEnrollments._derive_status

Days == {1, 2, 3}

\* A row of df_ui with its two date columns; NaT is a cell to_datetime could
\* not read.
DatedRows == {("Start Date" :> st) @@ ("End Date" :> en) : st \in Days \cup {NaT},
                                                           en \in Days \cup {NaT}}

\* A status that reads the dates only.
derive_status_undated(start_dt, end_dt, day) ==
    IF start_dt = NaT /\ end_dt = NaT THEN "<NA>"
    ELSE IF start_dt # NaT /\ end_dt = NaT THEN "In Progress"
    ELSE "Completed"

\* _derive_status on one row: a comparison with NaT is false; the cell that
\* np.select filled is overwritten where both dates are missing.
derive_status(start_dt, end_dt, day) ==
    IF start_dt = NaT /\ end_dt = NaT THEN "<NA>"
    ELSE IF start_dt # NaT /\ start_dt > day THEN "Upcoming"
    ELSE IF start_dt # NaT /\ start_dt <= day /\ (end_dt = NaT \/ end_dt >= day)
         THEN "In Progress"
    ELSE "Completed"

InitStatus ==
    /\ pc = "status"
    /\ df_out \in [1..NumLoad -> DatedRows]
    /\ today = 0 /\ runs = <<>>
    /\ mapping = {} /\ catalog = {} /\ lookups = <<>> /\ df_raw = <<>>
    /\ remaps = <<>> /\ output = NoFile /\ log = {}
    /\ ReviewIdle /\ OwnIdle /\ DepIdle /\ MatchIdle

\* main, step 4, in one of two runs on the same df_ui: the clock gives the
\* day, which is not before the day of the earlier run.
DeriveStatus ==
    /\ pc = "status" /\ Len(runs) < 2
    /\ \E day \in Days :
           /\ day >= today
           /\ today' = day
           /\ runs' = Append(runs,
                  [i \in DOMAIN df_out |->
                       df_out[i] @@ ("Status" :>
                           derive_status(df_out[i]["Start Date"], df_out[i]["End Date"], day))])
    /\ pc' = IF Len(runs) = 1 THEN "status_done" ELSE pc
    /\ UNCHANGED <<mapping, catalog, lookups, df_raw, remaps, df_out, output, log, reviewVars, ownVars, depVars, matchVars>>

SpecStatus == InitStatus /\ [][DeriveStatus]_vars

\* C22 as stated: the two runs of the stage on the same records produce the
\* same records, whatever the days of the runs.
C22_AsStated == pc = "status_done" => runs[1] = runs[2]

\* ------------------------------------------- claims: the districts matcher

\* C25 as stated: a district matched by its identifier leaves the enrichment
\* with the identifier, name and further columns of the reference row its
\* identifier matched.
C25_AsStated ==
    pc = "dist_enriched" =>
        \A i \in DOMAIN df_ui :
            df_ui[i].tier = "ID" =>
                LET r == ref[df_ui[i].match_idx]
                IN  /\ df_ui[i].nces = r.nces
                    /\ df_ui[i].name = r.name
                    /\ df_ui[i].state = r.state
                    /\ df_ui[i].web = r.web

\* C27 as stated: the official name the in-state tier returns is the name of
\* a reference row of the record's state that scores best among the rows of
\* that state.
C27_AsStated ==
    pc = "dist_enriched" =>
        \A i \in DOMAIN df_ui :
            df_ui[i].tier = "REGIONAL_FUZZY" =>
                LET target == norm_district_name(df_ui[i].oname)
                    inState == {j \in DOMAIN ref : ref[j].state = df_ui[i].state_full}
                    score(j) == WRatio(target, norm_district_name(ref[j].name))
                IN  \E j \in inState :
                        /\ ref[j].name = df_ui[i].official
                        /\ \A k \in inState : score(k) <= score(j)

\* C29 as stated: the enrichment of a matched school leaves a legacy value
\* in place where the matched reference row has no value: no column that
\* held a value before the step is without one after it.
C29_Step ==
    SchoolEnrichStep =>
        \A i \in DOMAIN df_ui :
            df_ui'[i].match_idx # 0 =>
                /\ df_ui[i].name # NA => df_ui'[i].name # NA
                /\ df_ui[i].web # NA => df_ui'[i].web # NA
                /\ df_ui[i].setting # NA => df_ui'[i].setting # NA
C29_AsStated == [][C29_Step]_vars

\* ------------------------------------- claims: the session and the store

\* C28: a review session that ends without a merge decision (every group
\* skipped, or confirmed with fewer than two approved records) writes no
\* decisions file and leaves the file of an earlier session as it was, so
\* that a loader run after it drops the same duplicates as before.
C28_EmptySessionKeepsStore ==
    (pc = "done" /\ user_decisions = <<>>) =>
        /\ writes = 0
        /\ cache = cache0
        /\ cache0.exists =>
               /\ cache.exists
               /\ IdsToDrop(cache.rows) = IdsToDrop(cache0.rows)

\* Groups were presented, none gave a decision, and the file of the earlier
\* session is still there.
C28_Witness ==
    /\ pc = "done" /\ gi > Len(groups)
    /\ presented # <<>> /\ user_decisions = <<>>
    /\ cache0 = PriorStore /\ cache = PriorStore

\* ----------------------------------- claims: the remapping applied twice

\* No canonical id of a MERGE row is the duplicate id of a MERGE row.
NoCanonicalIsDuplicate ==
    \A j \in DOMAIN cache.rows, k \in DOMAIN cache.rows :
        (cache.rows[j].user_decision = "MERGE" /\ cache.rows[k].user_decision = "MERGE")
            => cache.rows[j].canonical_record_id # cache.rows[k].duplicate_record_id

\* C30: when no canonical id of the decisions is also a duplicate id, the
\* remapping of the product id and the product name applied to its own
\* output returns that output: every row is as the first pass left it.
C30_RemapIdempotent ==
    (pc = "enr_again" /\ NoCanonicalIsDuplicate) => runs[1] = dep_out

\* The first pass moved a row to its canonical product and gave it the
\* canonical name; the second pass left it there.
C30_Witness ==
    /\ pc = "enr_again" /\ NoCanonicalIsDuplicate
    /\ \E i \in DOMAIN dep :
           /\ dep[i].fk \in DOMAIN id_remap
           /\ dep_out[i].fk # dep[i].fk
           /\ dep_out[i].name # dep[i].name
           /\ runs[1][i] = dep_out[i]

\* =========================================================================
\*  load_products.py: the progress tables are injected into the products
\* =========================================================================

NumProgress == 2     \* rows of the course progress extract

ProductIds == <<"p1", "p2">>
\* df_prod after the deduplication block, with one mapped column.
ProductFrames ==
    {[i \in DOMAIN ProductIds |-> [id |-> ProductIds[i], desc |-> d[i]]] :
         d \in [DOMAIN ProductIds -> {NA, "base"}]}

CourseProgressRows == [id : {"p1", " p1", "p2"}, desc : {NA, "c1", "c2"}, mtime : {NaT, 1, 2}]
EnrichProgressRows == [id : {"p1", "p2"}, desc : {NA, "e1"}, mtime : {1}]

\* sort_values(by="Modified Time", ascending=True): missing times last, rows
\* of equal time in an order the sort does not fix.
ProgressOrders(frame) ==
    {p \in Perms(Len(frame)) :
        \A i, j \in 1..Len(frame) :
            i < j => /\ frame[p[i]].mtime = NaT => frame[p[j]].mtime = NaT
                     /\ (frame[p[i]].mtime # NaT /\ frame[p[j]].mtime # NaT)
                            => frame[p[i]].mtime <= frame[p[j]].mtime
                     /\ (frame[p[i]].mtime = NaT /\ frame[p[j]].mtime = NaT) => p[i] < p[j]}

\* Steps 4 and 6 on a sorted progress table: the stripped id is the Record Id
\* and the last row of each Record Id is kept.
ProgressFrame(sorted) ==
    LET stripped == [i \in DOMAIN sorted |-> [sorted[i] EXCEPT !.id = Strip(@)]]
    IN  DropDuplicatesLast(stripped, [i \in DOMAIN stripped |-> stripped[i].id])

\* DataFrame.update(other, overwrite=False) on the index Record Id: a cell
\* that is missing takes the cell of the row of other with the same index.
Update(frame, other) ==
    [i \in DOMAIN frame |->
        IF frame[i].desc = NA /\ \E r \in Range(other) : r.id = frame[i].id
        THEN [frame[i] EXCEPT !.desc = (CHOOSE r \in Range(other) : r.id = frame[i].id).desc]
        ELSE frame[i]]

InitInject ==
    /\ pc = "inject_start"
    /\ own \in ProductFrames
    /\ own_out = <<>>
    /\ \E c \in SeqsUpTo(CourseProgressRows, NumProgress), e \in SeqsUpTo(EnrichProgressRows, 1) :
           lookups = [course |-> File(c), enrich |-> File(e)]
    /\ mapping = {} /\ catalog = {} /\ df_raw = <<>>
    /\ remaps = <<>> /\ df_out = <<>> /\ output = NoFile /\ log = {}
    /\ today = 0 /\ runs = <<>>
    /\ ReviewIdle /\ DepIdle /\ MatchIdle

\* main, steps 3 to 7: both tables are sorted and deduplicated, then the
\* enrichment table and after it the course table are injected.
Inject ==
    /\ pc = "inject_start"
    /\ \E pcourse \in ProgressOrders(lookups.course.rows),
          penrich \in ProgressOrders(lookups.enrich.rows) :
           LET df_course == ProgressFrame(Sorted(lookups.course.rows, pcourse))
               df_enrich == ProgressFrame(Sorted(lookups.enrich.rows, penrich))
           IN  own_out' = Update(Update(own, df_enrich), df_course)
    /\ pc' = "inject_done"
    /\ UNCHANGED <<cache, cache0, own, notOwn>>

SpecInject == InitInject /\ [][Inject]_vars

\* The values a progress table holds for a product, when every row of the
\* table for that product has one.
Supplies(rows, id) ==
    /\ \E i \in DOMAIN rows : Strip(rows[i].id) = id
    /\ \A i \in DOMAIN rows : Strip(rows[i].id) = id => rows[i].desc # NA
ValuesFor(rows, id) == {rows[i].desc : i \in {j \in DOMAIN rows : Strip(rows[j].id) = id}}

\* C26 as stated: a product without a value of its own, for which both
\* progress tables supply one, ends with a value of the course progress table.
C26_AsStated ==
    pc = "inject_done" =>
        \A i \in DOMAIN own :
            (/\ own[i].desc = NA
             /\ Supplies(lookups.course.rows, own[i].id)
             /\ Supplies(lookups.enrich.rows, own[i].id))
                => own_out[i].desc \in ValuesFor(lookups.course.rows, own[i].id)

=============================================================================
